---- MODULE Spec2Model ----
(***************************************************************************)
(* Retrieval / ranking pipeline of the deficiency agent:                   *)
(*   step_2/hard_filter.py        embedding cache, Path A, Path B, combine *)
(*   step_3/rank_by_similarity.py cosine similarity, ranking, enrichment   *)
(* Scores are fixed-point numbers: a float s in [0,1] is the integer       *)
(* s * Scale.                                                              *)
(***************************************************************************)
EXTENDS Integers, Sequences, FiniteSets, TLC

VARIABLES
    cacheKeys,     \* _embedding_cache: the keys of the named texts it holds
    cacheFill,     \* _embedding_cache: number of further entries (texts never asked again)
    clientOK,      \* openai_client is not None
    call,          \* the last completed call of the cache API: inputs, outcomes, result
    th,            \* concurrent callers of the cache API: position and locals of each
    inp,           \* hard_filter: its arguments
    hpc,           \* hard_filter: position of the call
    cause,         \* hard_filter: what made it raise
    storeA,        \* whether the store answered the category-path query
    reqsA,         \* reqs_by_compartment
    task,          \* per entity of entity_embeddings_dict: its query task
    order,         \* the keys of entity_embeddings_dict, in insertion order
    allReqs,       \* all_requirements
    seenIds,       \* seen_req_ids
    reqsB,         \* reqs_by_entities
    result,        \* final_requirements, as returned
    sessions,      \* the store sessions of Path B: who opened, who queried, still open
    rk,            \* rank_requirements_by_similarity: method, top_n, enrichment
    cands,         \* the stored embedding of each record of the step 2 list
    score,         \* the similarity_score field of each record
    conn,          \* the connected_nodes field of each record
    embs,          \* what the embedding service answered for each entity, last call
    rankOut,       \* the list the last call returned
    rpc,           \* how far the ranking has come
    first,         \* the first call: its answers, its result, the fields after it
    pin,           \* evaluate_priority: api key, service outcome, reply, weights
    pout,          \* evaluate_priority: what it returned
    ppc,           \* evaluate_priority: position of the call
    din,           \* a detection result: its instruction and related documents
    dout,          \* the document fields of its scored record
    dpc,           \* position of the document derivation
    sin,           \* score_deficiencies: detection results, top_n
    sout,          \* score_deficiencies: what it returned
    spc,           \* score_deficiencies: position of the call
    cin,           \* calculate_detection_confidence: a detection result and the configuration
    cout,          \* calculate_detection_confidence: the components it computed
    cpc,           \* calculate_detection_confidence: position of the call
    node,          \* the pipeline graph: the node to run next
    pipe,          \* PipelineState: the output of each stage
    logs,          \* PipelineState: the log entries, as (step, event_type)
    ran            \* the nodes that have run, in order

cacheVars == <<cacheKeys, cacheFill, clientOK, call, th>>

hfVars == <<inp, hpc, cause, storeA, reqsA, task, order, allReqs, seenIds, reqsB, result,
            sessions>>

rankVars == <<rk, cands, score, conn, embs, rankOut, rpc, first>>

priorityVars == <<pin, pout, ppc>>

docVars == <<din, dout, dpc>>

scoreVars == <<sin, sout, spc>>

confVars == <<cin, cout, cpc>>

pipeVars == <<node, pipe, logs, ran>>

\* what the calls of the cache API leave alone
cacheFrame == <<hfVars, rankVars, priorityVars, docVars, scoreVars, confVars, pipeVars>>

\* what a call of hard_filter leaves alone
hfFrame == <<call, th, rankVars, priorityVars, docVars, scoreVars, confVars, pipeVars>>

\* what a call of the ranking leaves alone
rankFrame == <<cacheVars, hfVars, priorityVars, docVars, scoreVars, confVars, pipeVars>>

\* what the scoring stage leaves alone
retrievalVars == <<cacheVars, hfVars, rankVars>>

vars == <<cacheKeys, cacheFill, clientOK, call, th,
          inp, hpc, cause, storeA, reqsA, task, order, allReqs, seenIds, reqsB, result,
          sessions,
          rk, cands, score, conn, embs, rankOut, rpc, first,
          pin, pout, ppc, din, dout, dpc, sin, sout, spc,
          cin, cout, cpc, node, pipe, logs, ran>>

-----------------------------------------------------------------------------
(* Embedding cache: hard_filter.py lines 32-221                            *)

\* the capacity tested before every insertion
CacheCapacity == 1000

\* longest entity list handed to one batch call
MaxBatch == 2

\* texts that are requested again and again
Texts == {"appraisal", "income"}

\* a text that was never requested before and is never requested again
Fresh == "fresh"

\* cache sizes left behind by the earlier calls of a long-running process
WarmFills == {0, CacheCapacity - 1, CacheCapacity}

EmptyCache == [keys |-> {}, fill |-> 0]

TheCache == [keys |-> cacheKeys, fill |-> cacheFill]

\* len(_embedding_cache)
CacheLen(c) == Cardinality(c.keys) + c.fill

\* cache_key in _embedding_cache
CacheHas(c, text) == text \in c.keys

\* _embedding_cache[cache_key] = embedding
CachePut(c, text) ==
    IF text = Fresh THEN [c EXCEPT !.fill = @ + 1]
    ELSE [c EXCEPT !.keys = @ \cup {text}]

\* if len(_embedding_cache) > 1000: clear(); then insert
CacheStore(c, text) ==
    CachePut(IF CacheLen(c) > CacheCapacity THEN EmptyCache ELSE c, text)

\* get_entity_embedding(text, use_cache=True); ok: the embedding service answers
EmbedOne(c, client, text, ok) ==
    IF ~client THEN [raised |-> TRUE, cache |-> c]
    ELSE IF CacheHas(c, text) THEN [raised |-> FALSE, cache |-> c]
    ELSE IF ok THEN [raised |-> FALSE, cache |-> CacheStore(c, text)]
    ELSE [raised |-> TRUE, cache |-> c]

Range(s) == {s[i] : i \in DOMAIN s}

\* d[key] = value on an insertion-ordered dict, d given by its list of keys
DictSet(keys, key) == IF key \in Range(keys) THEN keys ELSE Append(keys, key)

\* the lookup loop of a batch call: the entities found in the cache (lines 185-190)
RECURSIVE CachedKeys(_, _, _, _)
CachedKeys(c, entities, i, got) ==
    IF i > Len(entities) THEN got
    ELSE CachedKeys(c, entities, i + 1,
                    IF CacheHas(c, entities[i]) THEN DictSet(got, entities[i]) ELSE got)

\* the entities of a batch call that miss the cache, in input order
Uncached(c, entities) == SelectSeq(entities, LAMBDA e : ~CacheHas(c, e))

\* the loop over the batch response: the first k items are read and stored
RECURSIVE BatchStore(_, _, _, _, _)
BatchStore(c, got, unc, i, k) ==
    IF i > k THEN [cache |-> c, got |-> got]
    ELSE BatchStore(CacheStore(c, unc[i]), DictSet(got, unc[i]), unc, i + 1, k)

\* faulty variant: the per-item retry is not guarded, the first failing item raises
RECURSIVE FallbackUnguarded(_, _, _, _, _)
FallbackUnguarded(c, got, unc, i, oks) ==
    IF i > Len(unc) THEN [raised |-> FALSE, cache |-> c, got |-> got]
    ELSE LET r == EmbedOne(c, TRUE, unc[i], oks[i])
         IN  IF r.raised THEN [raised |-> TRUE, cache |-> c, got |-> got]
             ELSE FallbackUnguarded(r.cache, DictSet(got, unc[i]), unc, i + 1, oks)

\* the fallback loop: every uncached entity is retried on its own, failures are skipped
RECURSIVE Fallback(_, _, _, _, _)
Fallback(c, got, unc, i, oks) ==
    IF i > Len(unc) THEN [raised |-> FALSE, cache |-> c, got |-> got]
    ELSE LET r == EmbedOne(c, TRUE, unc[i], oks[i])
         IN  Fallback(r.cache, IF r.raised THEN got ELSE DictSet(got, unc[i]),
                      unc, i + 1, oks)

\* get_entity_embeddings_batch(entities). delivered: the number of items of the
\* batch response that could be read (all of them: the batch call succeeded;
\* fewer: the call, or the read of item delivered+1, raised). oks[i]: the
\* single-item call for the i-th uncached entity succeeds.
\* got: the keys of the returned map, in insertion order.
BatchEmbed(c, client, entities, delivered, oks) ==
    IF ~client THEN [raised |-> TRUE, cache |-> c, got |-> <<>>]
    ELSE IF entities = <<>> THEN [raised |-> FALSE, cache |-> c, got |-> <<>>]
    ELSE LET hit == CachedKeys(c, entities, 1, <<>>)
             unc == Uncached(c, entities)
             b   == BatchStore(c, hit, unc, 1, delivered)
         IN  IF unc = <<>> THEN [raised |-> FALSE, cache |-> c, got |-> hit]
             ELSE IF delivered = Len(unc)
                  THEN [raised |-> FALSE, cache |-> b.cache, got |-> b.got]
                  ELSE Fallback(b.cache, b.got, unc, 1, oks)

RECURSIVE SeqsUpTo(_, _)
SeqsUpTo(S, n) ==
    IF n = 0 THEN {<<>>}
    ELSE LET shorter == SeqsUpTo(S, n - 1)
         IN  shorter \cup {Append(s, x) : s \in {t \in shorter : Len(t) = n - 1}, x \in S}

EntityLists == SeqsUpTo(Texts, MaxBatch)

NoCall == [op |-> "none"]

\* one call of get_entity_embedding
GetEntityEmbedding(text) ==
    \E ok \in BOOLEAN :
        \E r \in {EmbedOne(TheCache, clientOK, text, ok)} :
            /\ cacheKeys' = r.cache.keys
            /\ cacheFill' = r.cache.fill
            /\ call' = [op |-> "single", text |-> text, ok |-> ok,
                        before |-> cacheKeys, raised |-> r.raised]
            /\ UNCHANGED <<clientOK, th, cacheFrame>>

\* one call of get_entity_embeddings_batch
GetEntityEmbeddingsBatch ==
    \E entities \in EntityLists :
      LET n == Len(Uncached(TheCache, entities))
      IN  \E delivered \in 0..n :
            \E oks \in [1..n -> BOOLEAN] :
              /\ (delivered = n) => (\A i \in 1..n : oks[i])
              /\ \E r \in {BatchEmbed(TheCache, clientOK, entities, delivered, oks)} :
                     /\ cacheKeys' = r.cache.keys
                     /\ cacheFill' = r.cache.fill
                     /\ call' = [op |-> "batch", entities |-> entities,
                                 delivered |-> delivered, oks |-> oks,
                                 before |-> cacheKeys, raised |-> r.raised,
                                 got |-> r.got]
              /\ UNCHANGED <<clientOK, th, cacheFrame>>

\* no call of hard_filter is under way
HfIdle ==
    /\ inp = <<>> /\ hpc = "idle" /\ cause = "none" /\ storeA = "none" /\ reqsA = <<>>
    /\ task = <<>> /\ order = <<>> /\ allReqs = <<>> /\ seenIds = {}
    /\ reqsB = <<>> /\ result = <<>> /\ sessions = <<>>

\* no ranking is under way
RankIdle ==
    /\ rk = <<>> /\ cands = <<>> /\ score = <<>> /\ conn = <<>> /\ embs = <<>>
    /\ rankOut = <<>> /\ rpc = "idle" /\ first = <<>>

\* the scoring stage has not been entered
PriorityIdle == pin = <<>> /\ pout = <<>> /\ ppc = "idle"

DocIdle == din = <<>> /\ dout = <<>> /\ dpc = "idle"

ScoreIdle == sin = <<>> /\ sout = <<>> /\ spc = "idle"

ConfIdle == cin = <<>> /\ cout = <<>> /\ cpc = "idle"

PipeIdle == node = "idle" /\ pipe = <<>> /\ logs = <<>> /\ ran = <<>>

ScoringIdle == PriorityIdle /\ DocIdle /\ ScoreIdle /\ ConfIdle /\ PipeIdle

CacheInit ==
    /\ cacheKeys = {}
    /\ clientOK \in BOOLEAN
    /\ call = NoCall
    /\ th = <<>>
    /\ HfIdle
    /\ RankIdle
    /\ ScoringIdle

\* a fresh process: the cache is empty
InitCacheFill == CacheInit /\ cacheFill = 0

NextCacheFill ==
    \/ \E text \in Texts \cup {Fresh} : GetEntityEmbedding(text)
    \/ GetEntityEmbeddingsBatch

SpecCacheFill == InitCacheFill /\ [][NextCacheFill]_vars

\* a process that has embedded other texts before
InitCache == CacheInit /\ cacheFill \in WarmFills

NextCache ==
    \/ \E text \in Texts : GetEntityEmbedding(text)
    \/ GetEntityEmbeddingsBatch

SpecCache == InitCache /\ [][NextCache]_vars

\* C6: the embedding cache never holds more than 1000 entries
C6_CapacityEnforced == CacheLen(TheCache) <= CacheCapacity

\* C8: with a configured client a batch call never raises, and the returned map
\* holds exactly the texts that were cached, were delivered by the batch response
\* or were embedded by a single-item retry; a text whose every attempt failed is absent
C8_BatchFailuresSkipped ==
    (call.op = "batch" /\ clientOK) =>
        LET ents == call.entities
            hit  == {ents[i] : i \in {j \in DOMAIN ents : ents[j] \in call.before}}
            unc  == SelectSeq(ents, LAMBDA e : e \notin call.before)
            n    == Len(unc)
            sent == {unc[i] : i \in 1..call.delivered}
            redo == IF call.delivered < n
                    THEN {unc[i] : i \in {j \in 1..n : call.oks[j]}}
                    ELSE {}
        IN  /\ ~call.raised
            /\ Range(call.got) = hit \cup sent \cup redo

\* C8 witness: the batch call failed, one retry succeeded and one failed
C8_Witness ==
    /\ call.op = "batch" /\ clientOK
    /\ call.delivered = 0
    /\ Len(call.entities) = 2
    /\ call.before = {}
    /\ call.oks = <<TRUE, FALSE>>
    /\ call.got = <<call.entities[1]>>
    /\ call.entities[2] # call.entities[1]

-----------------------------------------------------------------------------
(* Two concurrent callers of the cache API. One step per access to the     *)
(* shared dictionary; the calls of the embedding service are local.        *)

Threads == {1, 2}

Idle == [pc |-> "idle", op |-> "none", text |-> "", ents |-> <<>>, i |-> 1,
         unc |-> <<>>, got |-> {}, k |-> 0, j |-> 1, res |-> "none"]

\* a thread between its size check and its insertion
CriticalPcs == {"s_clear", "s_put", "b_clear", "b_put"}

SetTh(t, l) == th' = [th EXCEPT ![t] = l]

Raise(l) == [l EXCEPT !.pc = "done", !.res = "raise"]

Return(l) == [l EXCEPT !.pc = "done", !.res = "ok"]

\* the batch fallback moves on to the next uncached entity (lines 215-219)
NextRetry(l) ==
    IF l.j + 1 > Len(l.unc) THEN Return(l)
    ELSE [l EXCEPT !.j = l.j + 1, !.text = l.unc[l.j + 1], !.pc = "s_in"]

\* get_entity_embedding returns or raises: to its caller, or to the fallback loop
SingleEnds(l, success) ==
    IF l.op = "single" THEN (IF success THEN Return(l) ELSE Raise(l))
    ELSE NextRetry(IF success THEN [l EXCEPT !.got = @ \cup {l.text}] ELSE l)

\* a caller enters get_entity_embedding (lines 141-142)
CallSingle(t) ==
    /\ th[t].pc = "idle"
    /\ \E text \in Texts :
         SetTh(t, IF clientOK
                  THEN [Idle EXCEPT !.op = "single", !.text = text, !.pc = "s_in"]
                  ELSE Raise([Idle EXCEPT !.op = "single", !.text = text]))
    /\ UNCHANGED <<cacheKeys, cacheFill, clientOK, call, cacheFrame>>

\* line 146: cache_key in _embedding_cache; on a miss the service is called (149-153)
SingleIn(t) ==
    /\ th[t].pc = "s_in"
    /\ IF CacheHas(TheCache, th[t].text)
       THEN SetTh(t, [th[t] EXCEPT !.pc = "s_read"])
       ELSE \E ok \in BOOLEAN :
              SetTh(t, IF ok THEN [th[t] EXCEPT !.pc = "s_check"]
                       ELSE SingleEnds(th[t], FALSE))
    /\ UNCHANGED <<cacheKeys, cacheFill, clientOK, call, cacheFrame>>

\* line 147: return _embedding_cache[cache_key]; KeyError if it was flushed meanwhile
SingleRead(t) ==
    /\ th[t].pc = "s_read"
    /\ SetTh(t, SingleEnds(th[t], CacheHas(TheCache, th[t].text)))
    /\ UNCHANGED <<cacheKeys, cacheFill, clientOK, call, cacheFrame>>

\* line 157: if len(_embedding_cache) > 1000
SingleCheck(t) ==
    /\ th[t].pc = "s_check"
    /\ SetTh(t, [th[t] EXCEPT !.pc = IF CacheLen(TheCache) > CacheCapacity
                                     THEN "s_clear" ELSE "s_put"])
    /\ UNCHANGED <<cacheKeys, cacheFill, clientOK, call, cacheFrame>>

\* line 159: _embedding_cache.clear()
SingleClear(t) ==
    /\ th[t].pc = "s_clear"
    /\ cacheKeys' = {}
    /\ cacheFill' = 0
    /\ SetTh(t, [th[t] EXCEPT !.pc = "s_put"])
    /\ UNCHANGED <<clientOK, call, cacheFrame>>

\* line 160: _embedding_cache[cache_key] = embedding
SinglePut(t) ==
    /\ th[t].pc = "s_put"
    /\ cacheKeys' = cacheKeys \cup {th[t].text}
    /\ SetTh(t, SingleEnds(th[t], TRUE))
    /\ UNCHANGED <<cacheFill, clientOK, call, cacheFrame>>

\* the lookup loop of the batch call is over (lines 195-200): the batch request is
\* sent for the uncached entities, k items of its response can be read
BatchSend(l) ==
    IF l.unc = <<>> THEN {Return(l)}
    ELSE {IF k >= 1 THEN [l EXCEPT !.k = k, !.j = 1, !.pc = "b_check"]
          ELSE [l EXCEPT !.k = 0, !.j = 1, !.text = l.unc[1], !.pc = "s_in"]
          : k \in 0..Len(l.unc)}

\* the lookup loop moves on to the next entity
NextLookup(l) ==
    IF l.i + 1 > Len(l.ents) THEN BatchSend(l)
    ELSE {[l EXCEPT !.i = l.i + 1, !.pc = "b_in"]}

\* a caller enters get_entity_embeddings_batch (lines 178-182)
CallBatch(t) ==
    /\ th[t].pc = "idle"
    /\ \E ents \in EntityLists :
         SetTh(t, IF ~clientOK THEN Raise([Idle EXCEPT !.op = "batch", !.ents = ents])
                  ELSE IF ents = <<>> THEN Return([Idle EXCEPT !.op = "batch"])
                  ELSE [Idle EXCEPT !.op = "batch", !.ents = ents, !.pc = "b_in"])
    /\ UNCHANGED <<cacheKeys, cacheFill, clientOK, call, cacheFrame>>

\* line 189: if cache_key in _embedding_cache ... else uncached_entities.append
BatchIn(t) ==
    /\ th[t].pc = "b_in"
    /\ LET l == th[t]
           e == l.ents[l.i]
       IN  IF CacheHas(TheCache, e)
           THEN SetTh(t, [l EXCEPT !.pc = "b_read"])
           ELSE \E n \in NextLookup([l EXCEPT !.unc = Append(@, e)]) : SetTh(t, n)
    /\ UNCHANGED <<cacheKeys, cacheFill, clientOK, call, cacheFrame>>

\* line 190: cached[entity] = _embedding_cache[cache_key]; a KeyError leaves the call
BatchRead(t) ==
    /\ th[t].pc = "b_read"
    /\ LET l == th[t]
           e == l.ents[l.i]
       IN  IF CacheHas(TheCache, e)
           THEN \E n \in NextLookup([l EXCEPT !.got = @ \cup {e}]) : SetTh(t, n)
           ELSE SetTh(t, Raise(l))
    /\ UNCHANGED <<cacheKeys, cacheFill, clientOK, call, cacheFrame>>

\* line 209: if len(_embedding_cache) > 1000
BatchCheck(t) ==
    /\ th[t].pc = "b_check"
    /\ SetTh(t, [th[t] EXCEPT !.pc = IF CacheLen(TheCache) > CacheCapacity
                                     THEN "b_clear" ELSE "b_put"])
    /\ UNCHANGED <<cacheKeys, cacheFill, clientOK, call, cacheFrame>>

\* line 210: _embedding_cache.clear()
BatchClear(t) ==
    /\ th[t].pc = "b_clear"
    /\ cacheKeys' = {}
    /\ cacheFill' = 0
    /\ SetTh(t, [th[t] EXCEPT !.pc = "b_put"])
    /\ UNCHANGED <<clientOK, call, cacheFrame>>

\* lines 206, 211: the item is stored; after the last readable item the call
\* returns, or the read of the next one raises and the fallback starts (212-215)
BatchPut(t) ==
    /\ th[t].pc = "b_put"
    /\ LET l == th[t]
           e == l.unc[l.j]
           m == [l EXCEPT !.got = @ \cup {e}]
       IN  /\ cacheKeys' = cacheKeys \cup {e}
           /\ SetTh(t, IF l.j < l.k THEN [m EXCEPT !.j = l.j + 1, !.pc = "b_check"]
                       ELSE IF l.k = Len(l.unc) THEN Return(m)
                       ELSE [m EXCEPT !.j = 1, !.text = l.unc[1], !.pc = "s_in"])
    /\ UNCHANGED <<cacheFill, clientOK, call, cacheFrame>>

\* the caller takes the result and is ready for its next call
Finish(t) ==
    /\ th[t].pc = "done"
    /\ SetTh(t, Idle)
    /\ UNCHANGED <<cacheKeys, cacheFill, clientOK, call, cacheFrame>>

InitCacheConc ==
    /\ cacheKeys = {}
    /\ cacheFill \in WarmFills
    /\ clientOK \in BOOLEAN
    /\ call = NoCall
    /\ th = [t \in Threads |-> Idle]
    /\ HfIdle
    /\ RankIdle
    /\ ScoringIdle

NextCacheConc ==
    \E t \in Threads :
        \/ CallSingle(t) \/ SingleIn(t) \/ SingleRead(t)
        \/ SingleCheck(t) \/ SingleClear(t) \/ SinglePut(t)
        \/ CallBatch(t) \/ BatchIn(t) \/ BatchRead(t)
        \/ BatchCheck(t) \/ BatchClear(t) \/ BatchPut(t)
        \/ Finish(t)

SpecCacheConc == InitCacheConc /\ [][NextCacheConc]_vars

\* C7: a caller's size check, flush and insertion are one atomic step: no two
\* callers are between check and insertion at once, a flush that was decided
\* is still due when it happens, and the size never passes what one caller allows
C7_CacheSerialized ==
    /\ Cardinality({t \in Threads : th[t].pc \in CriticalPcs}) <= 1
    /\ \A t \in Threads :
         th[t].pc \in {"s_clear", "b_clear"} => CacheLen(TheCache) > CacheCapacity
    /\ CacheLen(TheCache) <= CacheCapacity + 1

-----------------------------------------------------------------------------
(* The knowledge-graph store: four Requirement nodes, two program nodes.   *)
(* Names are sequences of characters, as toLower and CONTAINS see them.    *)

\* a node without an `id` property
NoId == "none"

\* the Requirement nodes by element id, in the order the store returns them
ReqNodes == <<"e1", "e2", "e3", "e4">>

NodeId(n) ==
    CASE n = "e1" -> "R1" [] n = "e2" -> "R2" [] n = "e3" -> NoId [] OTHER -> "R4"

NodeCompartment(n) == IF n = "e4" THEN "Assets" ELSE "Income"

ProgramNodes == <<"p1", "p2">>

ProgramName(p) == IF p = "p1" THEN <<"F", "x">> ELSE <<"F", "x", "S">>

\* (program)-[]->(req)
ProgramEdges == {<<"p1", "e1">>, <<"p1", "e2">>, <<"p2", "e1">>,
                 <<"p2", "e3">>, <<"p2", "e4">>}

\* the Requirement nodes the semantic query reaches from an entity's embedding
SemHits(entity) ==
    CASE entity = "appraisal" -> <<"e1", "e3">>
      [] entity = "income" -> <<"e3", "e4">>
      [] OTHER -> <<>>

ToLowerChar(ch) == CASE ch = "F" -> "f" [] ch = "S" -> "s" [] OTHER -> ch

ToLower(str) == [i \in DOMAIN str |-> ToLowerChar(str[i])]

\* a CONTAINS b
Contains(a, b) ==
    \E s \in {a} : \E i \in 0..(Len(s) - Len(b)) : SubSeq(s, i + 1, i + Len(b)) = b

\* lines 55-57: the fuzzy match of a program node
ProgramMatches(name, loan_program) ==
    \/ Contains(ToLower(name), ToLower(loan_program))
    \/ Contains(ToLower(loan_program), ToLower(name))

RECURSIVE Flatten(_)
Flatten(ss) == IF ss = <<>> THEN <<>> ELSE Head(ss) \o Flatten(Tail(ss))

\* dict(req_node) with _element_id (and _programs on Path A)
ReqDict(n, hasPrograms, programs) ==
    [elem |-> n, id |-> NodeId(n), hasPrograms |-> hasPrograms, programs |-> programs]

\* lines 52-66, 98-101: the rows of the query with a loan program, one per
\* (requirement, program name)
RowsWithProgram(compartments, loan_program) ==
    Flatten([i \in DOMAIN ProgramNodes |->
        LET p == ProgramNodes[i]
            reached == SelectSeq(ReqNodes, LAMBDA n :
                           /\ <<p, n>> \in ProgramEdges
                           /\ NodeCompartment(n) \in compartments)
        IN  IF ProgramMatches(ProgramName(p), loan_program)
            THEN [j \in DOMAIN reached |->
                     ReqDict(reached[j], TRUE, <<ProgramName(p)>>)]
            ELSE <<>>])

\* lines 69-78, 103-106: the rows of the query without a loan program, one per
\* requirement, with the names of its programs
RowsByCompartment(compartments) ==
    LET found == SelectSeq(ReqNodes, LAMBDA n : NodeCompartment(n) \in compartments)
        names(n) == LET ps == SelectSeq(ProgramNodes, LAMBDA p : <<p, n>> \in ProgramEdges)
                    IN  [k \in DOMAIN ps |-> ProgramName(ps[k])]
    IN  [j \in DOMAIN found |-> ReqDict(found[j], TRUE, names(found[j]))]

\* faulty variant: a failure of the store is answered by an empty list
CompartmentQuerySwallowed(compartments, loan_program, storeOK) ==
    IF ~storeOK THEN [raised |-> FALSE, rows |-> <<>>]
    ELSE [raised |-> FALSE,
          rows |-> IF loan_program # <<>>
                   THEN RowsWithProgram(compartments, loan_program)
                   ELSE RowsByCompartment(compartments)]

\* get_requirements_by_compartment: try/finally without except (lines 80-122)
GetRequirementsByCompartment(compartments, loan_program, storeOK) ==
    IF ~storeOK THEN [raised |-> TRUE, rows |-> <<>>]
    ELSE [raised |-> FALSE,
          rows |-> IF loan_program # <<>>
                   THEN RowsWithProgram(compartments, loan_program)
                   ELSE RowsByCompartment(compartments)]

\* what stands in for a missing serialized record in a key
NoBody == [elem |-> "", id |-> NoId, hasPrograms |-> FALSE, programs |-> <<>>]

\* req.get('id') or str(req)
ReqKey(req) ==
    IF req.id # NoId THEN [id |-> req.id, body |-> NoBody]
    ELSE [id |-> NoId, body |-> req]

Keys(reqs) == {ReqKey(reqs[i]) : i \in DOMAIN reqs}

\* how a per-entity query can end: "ok"; "open": opening the session raises;
\* "run": session.run raises; "rows": reading the rows raises after k of them
QueryOutcomes(entity) ==
    {[kind |-> "ok", k |-> Len(SemHits(entity))], [kind |-> "open", k |-> 0],
     [kind |-> "run", k |-> 0]}
    \cup {[kind |-> "rows", k |-> k] : k \in 0..(Len(SemHits(entity)) - 1)}

\* _query_requirements_for_entity: the session is opened outside the try,
\* the query and the row loop inside it (lines 253-270)
QueryRequirementsForEntity(entity, o) ==
    IF o.kind = "open" THEN [raised |-> TRUE, rows |-> <<>>]
    ELSE [raised |-> FALSE,
          rows |-> [i \in 1..o.k |-> ReqDict(SemHits(entity)[i], FALSE, <<>>)]]

\* faulty variant: the rows of one entity are added whether seen or not
RECURSIVE CollateAll(_, _, _, _)
CollateAll(all, seen, reqs, i) ==
    IF i > Len(reqs) THEN [all |-> all, seen |-> seen]
    ELSE CollateAll(Append(all, reqs[i]), seen \cup {ReqKey(reqs[i])}, reqs, i + 1)

\* lines 357-362, 378-383: the rows of one entity are added unless already seen
RECURSIVE Collate(_, _, _, _)
Collate(all, seen, reqs, i) ==
    IF i > Len(reqs) THEN [all |-> all, seen |-> seen]
    ELSE IF ReqKey(reqs[i]) \in seen THEN Collate(all, seen, reqs, i + 1)
    ELSE Collate(Append(all, reqs[i]), seen \cup {ReqKey(reqs[i])}, reqs, i + 1)

\* lines 320-325: one guarded single-item call per entity
RECURSIVE EmbedSequentially(_, _, _, _, _, _)
EmbedSequentially(c, client, got, entities, i, oks) ==
    IF i > Len(entities) THEN [raised |-> FALSE, cache |-> c, got |-> got]
    ELSE LET r == EmbedOne(c, client, entities[i], oks[i])
         IN  EmbedSequentially(r.cache, client,
                               IF r.raised THEN got ELSE DictSet(got, entities[i]),
                               entities, i + 1, oks)

\* faulty variant: an empty intersection is answered by the Path B list
CombineNoFallback(byCompartment, byEntities) ==
    LET final == SelectSeq(byEntities, LAMBDA r : ReqKey(r) \in Keys(byCompartment))
    IN  IF Len(final) = 0 THEN byEntities ELSE final

\* lines 511-526: intersection by key, in Path B order; Path A if it is empty
Combine(byCompartment, byEntities) ==
    LET final == SelectSeq(byEntities, LAMBDA r : ReqKey(r) \in Keys(byCompartment))
    IN  IF Len(final) = 0 THEN byCompartment ELSE final

\* the size of the worker pool is capped
PoolSize == 5

\* longest entity list handed to hard_filter
MaxEntities == 2

Min(a, b) == IF a < b THEN a ELSE b

\* faulty variant: one worker per entity, however many there are
MaxWorkersUncapped == Len(inp.entities)

\* max_workers=min(len(entities), 5)
MaxWorkers == Min(Len(inp.entities), PoolSize)

CompartmentArgs == SUBSET {"Income", "Assets"}

\* no program, "fx" (in both program names), "s" (in one)
ProgramArgs == {<<>>, <<"f", "x">>, <<"s">>}

\* the session the sequential branch opens around its loop (line 368)
Outer == "outer"

\* driver.session(): a new session, opened by `by`
OpenSession(ss, id, by) == (id :> [by |-> by, users |-> {}, open |-> TRUE]) @@ ss

\* session.run(...) and the read of its rows, by the task `user`
UseSession(ss, id, user) == [ss EXCEPT ![id].users = @ \cup {user}]

\* faulty variant: the session is left open
LeaveSession(ss, id) == ss

\* the with-block of the session is left, by return or by exception
CloseSession(ss, id) == [ss EXCEPT ![id].open = FALSE]

\* a submitted query; issued counts the calls of _query_requirements_for_entity
NewTask == [st |-> "queued", out |-> "none", rows |-> <<>>, issued |-> 0]

InitHf ==
    /\ cacheKeys = {} /\ cacheFill = 0 /\ clientOK \in BOOLEAN
    /\ call = NoCall /\ th = <<>>
    /\ inp \in [compartments : CompartmentArgs, entities : SeqsUpTo(Texts, MaxEntities),
                program : ProgramArgs, batch : BOOLEAN, parallel : BOOLEAN]
    /\ hpc = "start" /\ cause = "none" /\ storeA = "none" /\ reqsA = <<>>
    /\ task = <<>> /\ order = <<>> /\ allReqs = <<>> /\ seenIds = {}
    /\ reqsB = <<>> /\ result = <<>> /\ sessions = <<>>
    /\ RankIdle
    /\ ScoringIdle

\* line 467: Path A; its exception is not handled in hard_filter
PathA ==
    /\ hpc = "start"
    /\ \E storeOK \in BOOLEAN :
         LET r == GetRequirementsByCompartment(inp.compartments, inp.program, storeOK)
         IN  /\ storeA' = IF storeOK THEN "ok" ELSE "failed"
             /\ reqsA' = r.rows
             /\ hpc' = IF r.raised THEN "raised" ELSE "embed"
             /\ cause' = IF r.raised THEN "pathA" ELSE cause
    /\ UNCHANGED <<hfFrame, cacheKeys, cacheFill, clientOK, inp, task, order,
                   allReqs, seenIds, reqsB, result, sessions>>

\* the embeddings are there: lines 327-334
AfterEmbedding(r) ==
    /\ cacheKeys' = r.cache.keys
    /\ cacheFill' = r.cache.fill
    /\ IF r.raised
       THEN /\ hpc' = "raised" /\ cause' = "credentials"
            /\ UNCHANGED <<order, task, reqsB, sessions>>
       ELSE /\ order' = r.got
            /\ task' = [e \in Range(r.got) |-> NewTask]
            /\ UNCHANGED reqsB
            /\ IF r.got = <<>>
               THEN hpc' = "combine" /\ UNCHANGED <<cause, sessions>>
               ELSE IF inp.parallel /\ Len(inp.entities) > 1
               THEN hpc' = "fanout" /\ UNCHANGED <<cause, sessions>>
               ELSE \E opens \in BOOLEAN :
                      IF opens
                      THEN /\ hpc' = "seq" /\ UNCHANGED cause
                           /\ sessions' = OpenSession(sessions, Outer, Outer)
                      ELSE /\ hpc' = "raised" /\ cause' = "session"
                           /\ UNCHANGED sessions

\* lines 306-328 of get_requirements_by_semantic_search
EmbedEntities ==
    /\ hpc = "embed"
    /\ IF inp.entities = <<>>
       THEN /\ hpc' = "combine"
            /\ UNCHANGED <<cacheKeys, cacheFill, cause, order, task, reqsB, sessions>>
       ELSE IF inp.batch
       THEN LET n == Len(Uncached(TheCache, inp.entities))
            IN  \E delivered \in 0..n : \E oks \in [1..n -> BOOLEAN] :
                  /\ (delivered = n) => (\A i \in 1..n : oks[i])
                  /\ AfterEmbedding(BatchEmbed(TheCache, clientOK, inp.entities,
                                               delivered, oks))
       ELSE \E oks \in [1..Len(inp.entities) -> BOOLEAN] :
              AfterEmbedding(EmbedSequentially(TheCache, clientOK, <<>>,
                                               inp.entities, 1, oks))
    /\ UNCHANGED <<hfFrame, clientOK, inp, storeA, reqsA, allReqs, seenIds, result>>

Running == {e \in DOMAIN task : task[e].st = "running"}

AllCollected(tk) == \A e \in DOMAIN tk : tk[e].st = "collected"

\* a pool worker takes a submitted query (lines 337-349) and enters
\* _query_requirements_for_entity: it opens its session (line 253), or that raises
StartQuery(e) ==
    /\ hpc = "fanout"
    /\ task[e].st = "queued"
    /\ Cardinality(Running) < MaxWorkers
    /\ \E opens \in BOOLEAN :
         IF opens
         THEN /\ task' = [task EXCEPT ![e].st = "running", ![e].issued = @ + 1]
              /\ sessions' = OpenSession(sessions, e, e)
         ELSE LET r == QueryRequirementsForEntity(e, [kind |-> "open", k |-> 0])
              IN  /\ task' = [task EXCEPT ![e].st = "raised", ![e].issued = @ + 1,
                                          ![e].out = "open", ![e].rows = r.rows]
                  /\ UNCHANGED sessions
    /\ UNCHANGED <<hfFrame, cacheKeys, cacheFill, clientOK, inp, hpc, cause, storeA, reqsA,
                   order, allReqs, seenIds, reqsB, result>>

\* the worker's query runs on its session and ends (lines 254-270)
EndQuery(e) ==
    /\ hpc = "fanout"
    /\ task[e].st = "running"
    /\ \E o \in QueryOutcomes(e) :
         /\ o.kind # "open"
         /\ LET r == QueryRequirementsForEntity(e, o)
            IN  task' = [task EXCEPT ![e].st = "finished", ![e].out = o.kind,
                                     ![e].rows = r.rows]
    /\ sessions' = CloseSession(UseSession(sessions, e, e), e)
    /\ UNCHANGED <<hfFrame, cacheKeys, cacheFill, clientOK, inp, hpc, cause, storeA, reqsA,
                   order, allReqs, seenIds, reqsB, result>>

\* lines 352-365: the next completed future is collected; future.result() is guarded
Collect(e) ==
    /\ hpc = "fanout"
    /\ task[e].st \in {"finished", "raised"}
    /\ LET c  == IF task[e].st = "finished"
                 THEN Collate(allReqs, seenIds, task[e].rows, 1)
                 ELSE [all |-> allReqs, seen |-> seenIds]
           tk == [task EXCEPT ![e].st = "collected"]
       IN  /\ task' = tk
           /\ allReqs' = c.all
           /\ seenIds' = c.seen
           /\ IF AllCollected(tk)
              THEN hpc' = "combine" /\ reqsB' = c.all
              ELSE UNCHANGED <<hpc, reqsB>>
    /\ UNCHANGED <<hfFrame, cacheKeys, cacheFill, clientOK, inp, cause, storeA, reqsA,
                   order, result, sessions>>

\* lines 368-384: the next entity of the dict is queried by the caller itself;
\* the call is not guarded
QueryNext ==
    /\ hpc = "seq"
    /\ LET i == CHOOSE j \in DOMAIN order :
                    /\ task[order[j]].st = "queued"
                    /\ \A k \in 1..(j - 1) : task[order[k]].st = "collected"
           e == order[i]
       IN  \E o \in QueryOutcomes(e) :
             LET r  == QueryRequirementsForEntity(e, o)
                 c  == Collate(allReqs, seenIds, r.rows, 1)
                 tk == [task EXCEPT ![e].st = IF r.raised THEN "raised" ELSE "collected",
                                    ![e].out = o.kind, ![e].rows = r.rows,
                                    ![e].issued = @ + 1]
                 ss == IF r.raised THEN sessions
                       ELSE CloseSession(UseSession(OpenSession(sessions, e, e), e, e), e)
             IN  /\ task' = tk
                 /\ IF r.raised
                    THEN /\ hpc' = "raised" /\ cause' = "query"
                         /\ sessions' = CloseSession(ss, Outer)
                         /\ UNCHANGED <<allReqs, seenIds, reqsB>>
                    ELSE /\ allReqs' = c.all
                         /\ seenIds' = c.seen
                         /\ UNCHANGED cause
                         /\ IF AllCollected(tk)
                            THEN /\ hpc' = "combine" /\ reqsB' = c.all
                                 /\ sessions' = CloseSession(ss, Outer)
                            ELSE /\ sessions' = ss
                                 /\ UNCHANGED <<hpc, reqsB>>
    /\ UNCHANGED <<hfFrame, cacheKeys, cacheFill, clientOK, inp, storeA, reqsA, order, result>>

\* lines 511-536
CombineAndReturn ==
    /\ hpc = "combine"
    /\ result' = Combine(reqsA, reqsB)
    /\ hpc' = "returned"
    /\ UNCHANGED <<hfFrame, cacheKeys, cacheFill, clientOK, inp, cause, storeA, reqsA, task,
                   order, allReqs, seenIds, reqsB, sessions>>

NextHf ==
    \/ PathA
    \/ EmbedEntities
    \/ \E e \in DOMAIN task : StartQuery(e)
    \/ \E e \in DOMAIN task : EndQuery(e)
    \/ \E e \in DOMAIN task : Collect(e)
    \/ QueryNext
    \/ CombineAndReturn

SpecHf == InitHf /\ [][NextHf]_vars

\* entities that reach nothing in the store, one more than the pool has workers
PoolTexts == <<"t1", "t2", "t3", "t4", "t5", "t6">>

\* hard_filter is called with the first n of them, with its default modes
InitPool ==
    /\ cacheKeys = {} /\ cacheFill = 0 /\ clientOK = TRUE
    /\ call = NoCall /\ th = <<>>
    /\ \E n \in 0..Min(Len(PoolTexts), PoolSize + 1) :
         inp = [compartments |-> {"Income"}, entities |-> SubSeq(PoolTexts, 1, n),
                program |-> <<>>, batch |-> TRUE, parallel |-> TRUE]
    /\ hpc = "start" /\ cause = "none" /\ storeA = "none" /\ reqsA = <<>>
    /\ task = <<>> /\ order = <<>> /\ allReqs = <<>> /\ seenIds = {}
    /\ reqsB = <<>> /\ result = <<>> /\ sessions = <<>>
    /\ RankIdle
    /\ ScoringIdle

SpecPool == InitPool /\ [][NextHf]_vars

\* C11: during the fan-out at most min(#entities, 5) per-entity queries are in
\* flight, no query is issued twice, and when the fan-out is over the query of
\* every entity that has an embedding was issued exactly once
C11_BoundedFanOut ==
    /\ hpc = "fanout" =>
          /\ Cardinality(Running) <= Min(Len(inp.entities), PoolSize)
          /\ \A e \in DOMAIN task : task[e].issued <= 1
    /\ (hpc \in {"combine", "returned"} /\ Len(inp.entities) > 1) =>
          /\ DOMAIN task = Range(order)
          /\ \A e \in DOMAIN task : task[e].issued = 1

\* C11 witness: six entities have embeddings, five queries are in flight and the
\* sixth waits for a worker
C11_Witness ==
    /\ hpc = "fanout" /\ Cardinality(DOMAIN task) = PoolSize + 1
    /\ Cardinality(Running) = PoolSize
    /\ \E e \in DOMAIN task : task[e].st = "queued"

\* the tasks whose query ran on a session
Queried == {e \in DOMAIN task : task[e].out \in {"ok", "run", "rows"}}

\* C12: every per-entity query ran on the session its own task opened, no
\* session is used by a task that did not open it, a task's session is open only
\* while the task runs, and when retrieval is over, by return or by exception,
\* every session that was opened is closed
C12_OwnScopedSession ==
    /\ \A e \in Queried :
         e \in DOMAIN sessions /\ sessions[e].by = e /\ sessions[e].users = {e}
    /\ \A id \in DOMAIN sessions : sessions[id].users \subseteq {sessions[id].by}
    /\ \A e \in DOMAIN task :
         (e \in DOMAIN sessions /\ sessions[e].open) => task[e].st = "running"
    /\ hpc \in {"combine", "returned", "raised"} =>
         \A id \in DOMAIN sessions : ~sessions[id].open

\* C12 witness: two queries run at the same time, each on the open session its
\* own task opened
C12_Witness ==
    /\ hpc = "fanout"
    /\ Cardinality({e \in Running : sessions[e].open /\ sessions[e].by = e}) = 2

\* C1: the identities hard_filter returns are identities of Path A, and when no
\* Path B record has an identity of Path A the Path A list is returned as it is
C1_SubsetOrPathA ==
    hpc = "returned" =>
        /\ Keys(result) \subseteq Keys(reqsA)
        /\ (Keys(reqsB) \cap Keys(reqsA) = {}) => result = reqsA

\* C1 witness: Path B found records, none of them with an identity of Path A,
\* and the non-empty Path A list came back
C1_Witness ==
    /\ hpc = "returned"
    /\ reqsB # <<>> /\ reqsA # <<>>
    /\ Keys(reqsB) \cap Keys(reqsA) = {}
    /\ result = reqsA

\* C9: no failure of the semantic query of one entity makes hard_filter raise
C9_QueryFailureAbsorbed == hpc = "raised" => cause # "query"

\* C10: when the category-path query fails hard_filter raises: Path B is not
\* run and nothing is returned
C10_PathAFailureFatal ==
    storeA = "failed" =>
        /\ hpc = "raised" /\ cause = "pathA"
        /\ task = <<>> /\ reqsB = <<>> /\ result = <<>>

\* C10 witness: the category-path query failed and the call has raised
C10_Witness == storeA = "failed" /\ hpc = "raised" /\ inp.entities # <<>>

\* no two records of the list have the same identity key
UniqueKeys(reqs) ==
    \A i, j \in DOMAIN reqs : i # j => ReqKey(reqs[i]) # ReqKey(reqs[j])

\* C20: the list hard_filter returns never holds two records with the same
\* identity key, on the intersection path and on the Path A fallback path
C20_UniqueIdentity == hpc = "returned" => UniqueKeys(result)

\* the part of C20 about the intersection path
IntersectionUnique ==
    (hpc = "returned" /\ Keys(reqsB) \cap Keys(reqsA) # {}) => UniqueKeys(result)

\* the program nodes that pass the test of lines 55-57, in the order of the store
MatchingPrograms ==
    SelectSeq(ProgramNodes, LAMBDA p : ProgramMatches(ProgramName(p), inp.program))

\* C21: when a program is given and more than one program node passes the
\* substring test, every Path A record is reachable from the first matching
\* program node; what only the other matching nodes reach is not in Path A
C21_FirstProgramOnly ==
    (storeA = "ok" /\ inp.program # <<>> /\ Len(MatchingPrograms) > 1) =>
        \A i \in DOMAIN reqsA : <<MatchingPrograms[1], reqsA[i].elem>> \in ProgramEdges

\* C22: a requirement node without `id` that Path A and Path B both return has
\* the same key in the combine step for both copies, and is in the intersection
C22_FallbackKeyStable ==
    hpc = "returned" =>
        \A i \in DOMAIN reqsA : \A j \in DOMAIN reqsB :
            (reqsA[i].elem = reqsB[j].elem /\ reqsA[i].id = NoId) =>
                /\ ReqKey(reqsA[i]) = ReqKey(reqsB[j])
                /\ reqsB[j] \in Range(result)

\* the entities whose semantic query failed, and those whose query succeeded
FailedQueries == {e \in DOMAIN task : task[e].out \in {"open", "run", "rows"}}

SucceededQueries == {e \in DOMAIN task : task[e].out = "ok"}

\* C23: the Path B result holds no record of a failed query, rows read before
\* the failure included, unless a successful query of another entity returned it
C23_FailedContributionDropped ==
    hpc \in {"combine", "returned"} =>
        \A e \in FailedQueries : \A i \in DOMAIN reqsB :
            reqsB[i].elem \in Range(SemHits(e)) =>
                \E o \in SucceededQueries : reqsB[i].elem \in Range(SemHits(o))

\* the identities the queries of a call returned
IdentitiesQueried == UNION {Keys(task[e].rows) : e \in DOMAIN task}

\* C30: whatever the order in which the workers complete, the Path B result
\* holds the identities the queries returned, each exactly once, and which
\* identities hard_filter returns follows from the two sets of identities alone
C30_InterleavingIndependent ==
    (hpc \in {"combine", "returned"} /\ inp.parallel /\ Len(inp.entities) > 1) =>
        /\ Keys(reqsB) = IdentitiesQueried
        /\ UniqueKeys(reqsB)
        /\ hpc = "returned" =>
              Keys(result) = IF Keys(reqsA) \cap IdentitiesQueried = {}
                             THEN Keys(reqsA)
                             ELSE Keys(reqsA) \cap IdentitiesQueried

\* C30 witness: both queries returned the record without id, and the worker of
\* the second entity was collected first
C30_Witness ==
    /\ hpc = "returned" /\ inp.parallel
    /\ order = <<"appraisal", "income">>
    /\ SucceededQueries = {"appraisal", "income"}
    /\ Len(reqsB) = 3 /\ reqsB[1].elem = "e3" /\ reqsB[3].elem = "e1"

-----------------------------------------------------------------------------
(* Ranking: rank_by_similarity.py. Vectors are integer vectors, a          *)
(* similarity s is the integer s * Scale, rounded down.                    *)

\* resolution of the fixed-point similarities
Scale == 10

\* longest candidate list, longest entity list, largest top_n
MaxCands == 3

MaxRankEntities == 2

MaxTopN == 2

\* a record without a similarity_score field; top_n=None
NoScore == -1

NoTopN == -1

\* stored embeddings of a candidate: none, zero vector, two directions
CandEmbeddings == {<<>>, <<0, 0>>, <<1, 0>>, <<-1, 1>>}

\* answers of the embedding service for an entity: <<>> stands for a raised call
EntityAnswers == {<<>>, <<1, 0>>, <<0, 1>>}

RECURSIVE DotFrom(_, _, _)
DotFrom(a, b, i) == IF i > Len(a) THEN 0 ELSE a[i] * b[i] + DotFrom(a, b, i + 1)

\* np.dot
Dot(a, b) == DotFrom(a, b, 1)

RECURSIVE ISqrtFrom(_, _)
ISqrtFrom(x, r) == IF (r + 1) * (r + 1) > x THEN r ELSE ISqrtFrom(x, r + 1)

\* np.linalg.norm, times Scale
Norm(a) == ISqrtFrom(Dot(a, a) * Scale * Scale, 0)

\* dot_product / (norm1 * norm2), times Scale (line 139)
RawCosine(a, b) == (Dot(a, b) * Scale * Scale * Scale) \div (Norm(a) * Norm(b))

Max(a, b) == IF a > b THEN a ELSE b

\* faulty variant: the result is not clamped
CosineUnclamped(vec1, vec2) ==
    IF Norm(vec1) = 0 \/ Norm(vec2) = 0 THEN 0 ELSE RawCosine(vec1, vec2)

\* cosine_similarity (lines 117-142)
CosineSimilarity(vec1, vec2) ==
    IF Norm(vec1) = 0 \/ Norm(vec2) = 0 THEN 0
    ELSE Max(0, Min(Scale, RawCosine(vec1, vec2)))

RECURSIVE SeqMax(_)
SeqMax(s) == IF Len(s) = 1 THEN s[1] ELSE Max(s[1], SeqMax(Tail(s)))

RECURSIVE SeqSum(_)
SeqSum(s) == IF s = <<>> THEN 0 ELSE s[1] + SeqSum(Tail(s))

\* calculate_requirement_similarity (lines 145-182)
RequirementSimilarity(req_embedding, entity_embeddings, method) ==
    IF req_embedding = <<>> THEN 0
    ELSE LET similarities == CHOOSE f \in {[i \in DOMAIN entity_embeddings |->
                                 CosineSimilarity(req_embedding, entity_embeddings[i])]} : TRUE
         IN  IF similarities = <<>> THEN 0
             ELSE IF method = "avg" THEN SeqSum(similarities) \div Len(similarities)
             ELSE SeqMax(similarities)

Methods == {"max", "avg"}

\* lines 248-258: the embeddings of the entities whose call did not raise
Succeeded(answers) == SelectSeq(answers, LAMBDA a : a # <<>>)

\* calculate_requirement_similarity for every stored embedding and every list of
\* answers of the embedding service, computed once
SimilarityOf ==
    [e \in CandEmbeddings, a \in SeqsUpTo(EntityAnswers, MaxRankEntities), m \in Methods |->
        RequirementSimilarity(e, Succeeded(a), m)]

\* x.get('similarity_score', 0.0)
SortKey(sc, r) == IF sc[r] = NoScore THEN 0 ELSE sc[r]

\* a record goes behind every record whose key is not smaller
RECURSIVE InsertDesc(_, _, _)
InsertDesc(sorted, r, sc) ==
    IF sorted = <<>> THEN <<r>>
    ELSE IF SortKey(sc, Head(sorted)) >= SortKey(sc, r)
         THEN <<Head(sorted)>> \o InsertDesc(Tail(sorted), r, sc)
         ELSE <<r>> \o sorted

RECURSIVE InsertAsc(_, _, _)
InsertAsc(sorted, r, sc) ==
    IF sorted = <<>> THEN <<r>>
    ELSE IF SortKey(sc, Head(sorted)) <= SortKey(sc, r)
         THEN <<Head(sorted)>> \o InsertAsc(Tail(sorted), r, sc)
         ELSE <<r>> \o sorted

RECURSIVE SortDescFrom(_, _, _)
SortDescFrom(list, sc, acc) ==
    IF list = <<>> THEN acc
    ELSE SortDescFrom(Tail(list), sc, InsertDesc(acc, Head(list), sc))

RECURSIVE SortAscFrom(_, _, _)
SortAscFrom(list, sc, acc) ==
    IF list = <<>> THEN acc
    ELSE SortAscFrom(Tail(list), sc, InsertAsc(acc, Head(list), sc))

Reverse(s) == [i \in DOMAIN s |-> s[Len(s) + 1 - i]]

\* faulty variant: reverse=True is forgotten
SortedAscending(list, sc) == SortAscFrom(list, sc, <<>>)

\* faulty variant: sorted(...)[::-1], equal scores come out in reverse order
SortedThenReversed(list, sc) == Reverse(SortAscFrom(list, sc, <<>>))

\* sorted(requirements, key=..., reverse=True): stable (lines 280-284)
SortedDescending(list, sc) == SortDescFrom(list, sc, <<>>)

\* faulty variant: a lookup that raises leaves the record without the field
ConnectedNodesUnguarded(cn, kept, args) ==
    [r \in DOMAIN cn |->
        IF args.enrich /\ r \in Range(kept) /\ r \notin args.failing THEN "bundle" ELSE cn[r]]

\* lines 306-346: get_connected_nodes is called for the records that are
\* returned; "bundle" is what it returns, "empty" the four empty lists of the
\* except branch
ConnectedNodes(cn, kept, args) ==
    [r \in DOMAIN cn |->
        IF args.enrich /\ r \in Range(kept)
        THEN (IF r \in args.failing THEN "empty" ELSE "bundle")
        ELSE cn[r]]

\* rank_requirements_by_similarity(list, entities, top_n, method, enrich).
\* emb: the stored embedding of each record; sc, cn: the fields of the records;
\* answers: what get_entity_embedding gave for each entity; failing: the records
\* whose connected-node lookup raises. The records of the list are updated in place.
RankRequirements(list, emb, sc, cn, answers, args) ==
    LET entity_embeddings == Succeeded(answers)
        sc2 == CHOOSE f \in {[r \in DOMAIN sc |->
                   IF r \in Range(list)
                   THEN SimilarityOf[emb[r], answers, args.method]
                   ELSE sc[r]]} : TRUE
        ranked == SortedDescending(list, sc2)
        kept == IF args.top_n # NoTopN /\ args.top_n # 0
                THEN SubSeq(ranked, 1, Min(args.top_n, Len(ranked)))
                ELSE ranked
        cn2 == ConnectedNodes(cn, kept, args)
    IN  IF list = <<>> THEN [out |-> <<>>, score |-> sc, conn |-> cn]
        ELSE IF entity_embeddings = <<>> THEN [out |-> list, score |-> sc, conn |-> cn]
        ELSE [out |-> kept, score |-> sc2, conn |-> cn2]

\* enrichment off; on, with the lookup of the first record raising
EnrichArgs == {[enrich |-> FALSE, failing |-> {}], [enrich |-> TRUE, failing |-> {1}]}

InitRank ==
    /\ cacheKeys = {} /\ cacheFill = 0 /\ clientOK = TRUE /\ call = NoCall /\ th = <<>>
    /\ HfIdle
    /\ ScoringIdle
    /\ cands \in SeqsUpTo(CandEmbeddings, MaxCands)
    /\ \E m \in Methods, n \in {NoTopN} \cup 0..MaxTopN, e \in EnrichArgs :
         rk = [method |-> m, top_n |-> n, enrich |-> e.enrich, failing |-> e.failing]
    /\ score = [r \in DOMAIN cands |-> NoScore]
    /\ conn = [r \in DOMAIN cands |-> "none"]
    /\ embs = <<>> /\ rankOut = <<>> /\ rpc = "start" /\ first = <<>>

\* step 3 ranks the list that step 2 produced
Rank ==
    /\ rpc = "start"
    /\ \E answers \in SeqsUpTo(EntityAnswers, MaxRankEntities) :
         \E r \in {RankRequirements([i \in DOMAIN cands |-> i], cands, score, conn,
                                     answers, rk)} :
             /\ embs' = answers
             /\ rankOut' = r.out
             /\ score' = r.score
             /\ conn' = r.conn
             /\ first' = [embs |-> answers, out |-> r.out, score |-> r.score]
    /\ rpc' = "ranked"
    /\ UNCHANGED <<rk, cands, rankFrame>>

\* the returned list is ranked again, with the same entities, reducer and top_n
ReRank ==
    /\ rpc = "ranked"
    /\ \E r \in {RankRequirements(rankOut, cands, score, conn, embs, rk)} :
           /\ rankOut' = r.out
           /\ score' = r.score
           /\ conn' = r.conn
    /\ rpc' = "reranked"
    /\ UNCHANGED <<rk, cands, embs, first, rankFrame>>

NextRank == Rank \/ ReRank

SpecRank == InitRank /\ [][NextRank]_vars

\* the entity embeddings the last call could use
Embedded == Succeeded(embs)

\* C2: every similarity score lies in [0,1], and a record without a stored
\* embedding that was scored has the score 0.0
C2_ScoreInUnitInterval ==
    \A r \in DOMAIN score :
        score[r] # NoScore =>
            /\ 0 <= score[r] /\ score[r] <= Scale
            /\ cands[r] = <<>> => score[r] = 0

\* C2 witness: a record whose raw cosine to the only entity is negative has the
\* score 0, next to a record without embedding and one with a zero vector
C2_Witness ==
    /\ rpc = "ranked" /\ Len(Embedded) = 1
    /\ \E r \in DOMAIN cands :
         /\ cands[r] # <<>> /\ Norm(cands[r]) # 0
         /\ RawCosine(cands[r], Embedded[1]) < 0
         /\ score[r] = 0
    /\ \E r \in DOMAIN cands : cands[r] = <<>> /\ score[r] = 0
    /\ \E r \in DOMAIN cands : cands[r] = <<0, 0>> /\ score[r] = 0

\* C3: the returned list is in non-increasing score order, and records with
\* equal scores keep the order they had in the list that was passed in
C3_SortedAndStable ==
    rpc = "ranked" =>
        \A i, j \in DOMAIN rankOut :
            i < j =>
                /\ SortKey(score, rankOut[i]) >= SortKey(score, rankOut[j])
                /\ SortKey(score, rankOut[i]) = SortKey(score, rankOut[j])
                       => rankOut[i] < rankOut[j]

\* C3 witness: three records came back, the last of the input first, the two
\* others with equal scores in their input order
C3_Witness ==
    /\ rpc = "ranked" /\ Len(rankOut) = 3
    /\ rankOut = <<3, 1, 2>>
    /\ score[3] > score[1] /\ score[1] = score[2]

\* C4: ranking the returned list again, with the same answers of the embedding
\* service, returns the same records in the same order with the same scores
C4_Idempotent ==
    rpc = "reranked" => (rankOut = first.out /\ score = first.score)

\* C4 witness: a list with a tie and a strictly higher record was ranked twice
C4_Witness ==
    /\ rpc = "reranked" /\ Len(rankOut) >= 3
    /\ Embedded # <<>>
    /\ \E i, j \in DOMAIN rankOut : i < j /\ score[rankOut[i]] = score[rankOut[j]]
    /\ \E i, j \in DOMAIN rankOut : score[rankOut[i]] > score[rankOut[j]]

\* C5: with top_n given the call returns the first min(top_n, |candidates|)
\* records of the score-sorted order, each with a similarity_score, whatever the
\* embedding calls did; without top_n it returns all candidates
C5_TopNAlways ==
    rpc = "ranked" =>
        LET all == [i \in DOMAIN cands |-> i]
            ranked == SortedDescending(all, score)
        IN  IF rk.top_n # NoTopN
            THEN /\ rankOut = SubSeq(ranked, 1, Min(rk.top_n, Len(cands)))
                 /\ \A i \in DOMAIN rankOut : score[rankOut[i]] # NoScore
            ELSE Range(rankOut) = DOMAIN cands

\* what the first call returns when no lookup raises
WithoutFailure ==
    RankRequirements([i \in DOMAIN cands |-> i], cands, [r \in DOMAIN cands |-> NoScore],
                     [r \in DOMAIN cands |-> "none"], embs, [rk EXCEPT !.failing = {}])

\* C24: with enrichment on, only the returned records have connected nodes; a
\* lookup that raises leaves the list, its order and the scores as they are
\* without the failure, gives that record the four empty lists, and the other
\* returned records have their bundles
C24_EnrichmentFailureAbsorbed ==
    (rpc = "ranked" /\ rk.enrich /\ cands # <<>> /\ Embedded # <<>>) =>
        /\ \A r \in DOMAIN cands : r \notin Range(rankOut) => conn[r] = "none"
        /\ \A r \in Range(rankOut) :
              conn[r] = IF r \in rk.failing THEN "empty" ELSE "bundle"
        /\ rankOut = WithoutFailure.out
        /\ score = WithoutFailure.score

\* C24 witness: the lookup raised for a returned record, another record was
\* returned with its bundle, and a third was cut off
C24_Witness ==
    /\ rpc = "ranked" /\ rk.enrich /\ Embedded # <<>>
    /\ Len(cands) = 3 /\ Len(rankOut) = 2
    /\ \E r \in Range(rankOut) : r \in rk.failing /\ conn[r] = "empty"
    /\ \E r \in Range(rankOut) : conn[r] = "bundle"

\* C27: after rank_requirements_by_similarity has returned, no record of the
\* list the retrieval stage produced has a similarity_score or connected_nodes
C27_HandedByValue ==
    rpc = "ranked" =>
        \A r \in DOMAIN cands : score[r] = NoScore /\ conn[r] = "none"

-----------------------------------------------------------------------------
(* Priority evaluation: priority_evaluator.py. A dimension d is the        *)
(* integer d * DimScale, a weight w the integer w * WScale.                 *)

\* round(overall, 3): scores are kept to three decimals
DimScale == 1000

\* resolution of the configured weights
WScale == 10

\* the literal 0.5 of the neutral defaults
Half == DimScale \div 2

Num(v) == [t |-> "num", v |-> v]

\* a JSON value that is no number: a string, a list, null
NotANumber == [t |-> "other", v |-> 0]

\* the key is not in the object
Absent == [t |-> "absent", v |-> 0]

Dimensions == <<"severity", "impact", "urgency", "complexity">>

\* what the service can put under a dimension
DimValues == {Num(0 - 200), Num(200), Num(500), Num(501), Num(1500), NotANumber, Absent}

\* the JSON objects of the replies
ReplyObjects == [Range(Dimensions) -> DimValues]

\* what stands in where a reply is no JSON object
NoObject == [d \in Range(Dimensions) |-> Absent]

\* the texts the service returns: a JSON object, another JSON value (a list, a
\* number of several digits), or text that is no JSON; bare, in a ```json fence,
\* in a ``` fence, and fenced without the closing fence
Fences == {"bare", "json", "plain", "json_open", "plain_open"}

Replies ==
    {[fence |-> f, body |-> "object", obj |-> o] : f \in Fences, o \in ReplyObjects}
    \cup {[fence |-> f, body |-> b, obj |-> NoObject] :
             f \in Fences, b \in {"list", "number", "garbage"}}

\* lines 178-185: the text handed to json.loads. Without a closing fence find()
\* gives -1 and the slice drops the last character of the text
StripFence(reply) ==
    IF reply.fence \in {"json_open", "plain_open"}
    THEN [reply EXCEPT !.body = IF @ = "number" THEN "number" ELSE "garbage",
                       !.obj = NoObject]
    ELSE reply

Clamp(v) == Max(0, Min(DimScale, v))

\* faulty variant: values out of range are let through
NoClamp(v) == v

\* line 199: max(0, min(1, data[field]))
ClampDimension(v) == Clamp(v)

NeutralDims == [d \in Range(Dimensions) |-> Half]

\* parse_priority_response: "decode" is the JSONDecodeError answered by the
\* defaults (lines 203-213), "raise" an exception that leaves the function:
\* ValueError for a missing field, TypeError for a value that cannot be compared
ParsePriorityResponse(reply) ==
    LET text == StripFence(reply)
    IN  IF text.body = "garbage" THEN [kind |-> "decode", dims |-> NeutralDims]
        ELSE IF text.body # "object" THEN [kind |-> "raise", dims |-> NeutralDims]
        ELSE IF \E d \in Range(Dimensions) : text.obj[d].t # "num"
        THEN [kind |-> "raise", dims |-> NeutralDims]
        ELSE [kind |-> "ok",
              dims |-> [d \in Range(Dimensions) |-> ClampDimension(text.obj[d].v)]]

\* faulty variant: complexity is not inverted
OverallNotInverted(dims, weights) ==
    dims["severity"] * weights["severity"] + dims["impact"] * weights["impact"]
    + dims["urgency"] * weights["urgency"] + dims["complexity"] * weights["complexity"]

\* calculate_overall_priority, in units of 1/(DimScale*WScale)
CalculateOverallPriority(dims, weights) ==
    dims["severity"] * weights["severity"] + dims["impact"] * weights["impact"]
    + dims["urgency"] * weights["urgency"]
    + (DimScale - dims["complexity"]) * weights["complexity"]

\* round(x, 3) of x = n/(DimScale*WScale): to the nearest 1/DimScale, ties to even
Round3(n) ==
    LET q == n \div WScale
        r == n % WScale
    IN  IF 2 * r < WScale THEN q
        ELSE IF 2 * r > WScale THEN q + 1
        ELSE IF q % 2 = 0 THEN q ELSE q + 1

\* faulty variant: a failed call is passed on to the caller
FailurePropagates(explanation) ==
    [raised |-> TRUE, dims |-> NeutralDims, overall |-> Half, explanation |-> explanation]

\* lines 75-85: the neutral result of the except branch
NeutralResult(explanation) ==
    [raised |-> FALSE, dims |-> NeutralDims, overall |-> Half, explanation |-> explanation]

NoPriority == [raised |-> TRUE, dims |-> NeutralDims, overall |-> Half,
               explanation |-> "no api key"]

\* evaluate_priority. hasKey: an api key is passed or in the environment;
\* serviceOK: client.messages.create returns; reply: the text it returns
EvaluatePriority(hasKey, serviceOK, reply, weights) ==
    IF ~hasKey THEN NoPriority
    ELSE IF ~serviceOK THEN NeutralResult("call failed")
    ELSE LET p == ParsePriorityResponse(reply)
         IN  IF p.kind = "raise" THEN NeutralResult("reply rejected")
             ELSE [raised |-> FALSE, dims |-> p.dims,
                   overall |-> Round3(CalculateOverallPriority(p.dims, weights)),
                   explanation |-> IF p.kind = "decode" THEN "parse error" ELSE "reply"]

\* priority_score_weights of the configuration: the documented default, one
\* without weight on complexity, one with most weight on it
WeightSets ==
    {[severity |-> 4, impact |-> 3, urgency |-> 2, complexity |-> 1],
     [severity |-> 4, impact |-> 3, urgency |-> 3, complexity |-> 0],
     [severity |-> 1, impact |-> 1, urgency |-> 1, complexity |-> 7]}

InitPriority ==
    /\ cacheKeys = {} /\ cacheFill = 0 /\ clientOK = TRUE /\ call = NoCall /\ th = <<>>
    /\ HfIdle /\ RankIdle /\ DocIdle /\ ScoreIdle /\ ConfIdle /\ PipeIdle
    /\ pin \in [hasKey : BOOLEAN, serviceOK : BOOLEAN, reply : Replies, weights : WeightSets]
    /\ pout = <<>>
    /\ ppc = "start"

\* one call of evaluate_priority
Evaluate ==
    /\ ppc = "start"
    /\ pout' = EvaluatePriority(pin.hasKey, pin.serviceOK, pin.reply, pin.weights)
    /\ ppc' = "done"
    /\ UNCHANGED <<pin, docVars, scoreVars, retrievalVars, confVars, pipeVars>>

NextPriority == Evaluate

SpecPriority == InitPriority /\ [][NextPriority]_vars

C16_DimensionsInUnitInterval ==
    (ppc = "done" /\ ~pout.raised) =>
        /\ \A d \in Range(Dimensions) : 0 <= pout.dims[d] /\ pout.dims[d] <= DimScale
        /\ (pin.serviceOK /\ pout.explanation = "reply") =>
               \A d \in Range(Dimensions) :
                   LET v == pin.reply.obj[d].v
                   IN  pout.dims[d] = IF v < 0 THEN 0 ELSE IF v > DimScale THEN DimScale ELSE v
        /\ (pin.serviceOK /\ StripFence(pin.reply).body = "garbage") =>
               \A d \in Range(Dimensions) : pout.dims[d] = Half

\* C16 witness: a fenced reply with one value below 0, one above 1 and one in
\* range was accepted
C16_Witness ==
    /\ ppc = "done" /\ ~pout.raised /\ pin.serviceOK /\ pin.reply.fence = "json"
    /\ pout.explanation = "reply"
    /\ pin.reply.obj["severity"].v < 0 /\ pout.dims["severity"] = 0
    /\ pin.reply.obj["impact"].v > DimScale /\ pout.dims["impact"] = DimScale
    /\ pout.dims["urgency"] = 200

\* the same reply with another complexity
WithComplexity(reply, c) == [reply EXCEPT !.obj["complexity"] = Num(c)]

\* complexities in [0,1] the service can answer
Complexities == {v \in {x.v : x \in {y \in DimValues : y.t = "num"}} : 0 <= v /\ v <= DimScale}

\* the accepted reply of the last call has a complexity in [0,1]
Accepted ==
    /\ ppc = "done" /\ ~pout.raised /\ pin.serviceOK /\ pout.explanation = "reply"
    /\ pin.reply.obj["complexity"].v \in Complexities

-----------------------------------------------------------------------------
(* Actionable documents: deficiency_scorer.py lines 19-98. Strings are     *)
(* sequences of characters.                                                *)

UpperCase == <<"A","B","C","D","E","F","G","H","I","J","K","L","M","N","O","P","Q","R","S",
               "T","U","V","W","X","Y","Z">>

LowerCase == <<"a","b","c","d","e","f","g","h","i","j","k","l","m","n","o","p","q","r","s",
               "t","u","v","w","x","y","z">>

Digits == {"0","1","2","3","4","5","6","7","8","9"}

LowerChar(ch) ==
    IF \E i \in DOMAIN UpperCase : UpperCase[i] = ch
    THEN LowerCase[CHOOSE i \in DOMAIN UpperCase : UpperCase[i] = ch]
    ELSE ch

\* str.lower()
Lower(str) == [i \in DOMAIN str |-> LowerChar(str[i])] \o <<>>

\* str.strip()
Strip(str) ==
    LET inked == {i \in DOMAIN str : str[i] # " "}
    IN  IF inked = {} THEN <<>>
        ELSE SubSeq(str, CHOOSE i \in inked : \A j \in inked : i <= j,
                         CHOOSE i \in inked : \A j \in inked : j <= i)

\* str.split(',')
RECURSIVE SplitFrom(_, _, _)
SplitFrom(str, i, item) ==
    IF i > Len(str) THEN <<item>>
    ELSE IF str[i] = "," THEN <<item>> \o SplitFrom(str, i + 1, <<>>)
    ELSE SplitFrom(str, i + 1, Append(item, str[i]))

Split(str) == SplitFrom(str, 1, <<>>)

\* ', '.join(items)
RECURSIVE Join(_)
Join(items) ==
    IF items = <<>> THEN <<>>
    ELSE IF Len(items) = 1 THEN items[1]
    ELSE items[1] \o <<",", " ">> \o Join(Tail(items))

\* \w of the regular expression
IsWord(ch) ==
    \/ ch \in Digits \/ ch = "_"
    \/ \E i \in DOMAIN UpperCase : UpperCase[i] = ch \/ LowerCase[i] = ch

\* \b between position i and i+1
Boundary(str, i) ==
    (i >= 1 /\ i <= Len(str) /\ IsWord(str[i])) # (i + 1 <= Len(str) /\ IsWord(str[i + 1]))

\* [A-Z0-9]
IsStart(ch) == ch \in Digits \/ \E i \in DOMAIN UpperCase : UpperCase[i] = ch

\* [A-Za-z0-9\-]
IsInner(ch) == ch = "-" \/ (IsWord(ch) /\ ch # "_")

\* where a match of \b[A-Z0-9][A-Za-z0-9\-]*\b that starts at i ends: the
\* longest run that ends at a word boundary; 0 if there is none
MatchEnd(str, i) ==
    LET ends == {j \in i..Len(str) :
                    /\ \A k \in (i + 1)..j : IsInner(str[k])
                    /\ Boundary(str, j)}
    IN  IF Boundary(str, i - 1) /\ IsStart(str[i]) /\ ends # {}
        THEN CHOOSE j \in ends : \A k \in ends : k <= j
        ELSE 0

\* re.findall(r'\b[A-Z0-9][A-Za-z0-9\-]*\b', str) (line 74)
RECURSIVE FindAllFrom(_, _)
FindAllFrom(str, i) ==
    IF i > Len(str) THEN <<>>
    ELSE LET j == MatchEnd(str, i)
         IN  IF j = 0 THEN FindAllFrom(str, i + 1)
             ELSE <<SubSeq(str, i, j)>> \o FindAllFrom(str, j + 1)

\* doc_type_mapping, in the order of its items (lines 41-52)
DocTypeMapping ==
    <<
      \* 'bank statement': 'Business Bank Statement, Personal Bank Statement'
      <<<<"b","a","n","k"," ","s","t","a","t","e","m","e","n","t">>,
        <<"B","u","s","i","n","e","s","s"," ","B","a","n","k"," ","S","t","a","t","e","m","e","n",
          "t",","," ","P","e","r","s","o","n","a","l"," ","B","a","n","k"," ","S","t","a","t",
          "e","m","e","n","t">>>>,
      \* 'tax return': '1040 Personal Tax Return, 1120 Corporate Tax Return, Form 1120S Scorp, Form 1065'
      <<<<"t","a","x"," ","r","e","t","u","r","n">>,
        <<"1","0","4","0"," ","P","e","r","s","o","n","a","l"," ","T","a","x"," ","R","e","t","u",
          "r","n",","," ","1","1","2","0"," ","C","o","r","p","o","r","a","t","e"," ","T","a",
          "x"," ","R","e","t","u","r","n",","," ","F","o","r","m"," ","1","1","2","0","S"," ",
          "S","c","o","r","p",","," ","F","o","r","m"," ","1","0","6","5">>>>,
      \* 'paystub': 'Paystub, Pay Stub'
      <<<<"p","a","y","s","t","u","b">>,
        <<"P","a","y","s","t","u","b",","," ","P","a","y"," ","S","t","u","b">>>>,
      \* 'w-2': 'W-2 Form, W2'
      <<<<"w","-","2">>,
        <<"W","-","2"," ","F","o","r","m",","," ","W","2">>>>,
      \* 'cpa letter': 'CPA Letter for Self-Employment, CPA Letter for Use of Business Funds'
      <<<<"c","p","a"," ","l","e","t","t","e","r">>,
        <<"C","P","A"," ","L","e","t","t","e","r"," ","f","o","r"," ","S","e","l","f","-","E","m",
          "p","l","o","y","m","e","n","t",","," ","C","P","A"," ","L","e","t","t","e","r"," ",
          "f","o","r"," ","U","s","e"," ","o","f"," ","B","u","s","i","n","e","s","s"," ","F",
          "u","n","d","s">>>>,
      \* 'profit and loss': 'Profit and Loss Statement, P&L Statement'
      <<<<"p","r","o","f","i","t"," ","a","n","d"," ","l","o","s","s">>,
        <<"P","r","o","f","i","t"," ","a","n","d"," ","L","o","s","s"," ","S","t","a","t","e","m",
          "e","n","t",","," ","P","&","L"," ","S","t","a","t","e","m","e","n","t">>>>,
      \* 'balance sheet': 'Balance Sheet'
      <<<<"b","a","l","a","n","c","e"," ","s","h","e","e","t">>,
        <<"B","a","l","a","n","c","e"," ","S","h","e","e","t">>>>,
      \* 'credit report': 'Credit Report'
      <<<<"c","r","e","d","i","t"," ","r","e","p","o","r","t">>,
        <<"C","r","e","d","i","t"," ","R","e","p","o","r","t">>>>,
      \* 'appraisal': 'Appraisal Report'
      <<<<"a","p","p","r","a","i","s","a","l">>,
        <<"A","p","p","r","a","i","s","a","l"," ","R","e","p","o","r","t">>>>,
      \* 'title': 'Title Report, Preliminary Title'
      <<<<"t","i","t","l","e">>,
        <<"T","i","t","l","e"," ","R","e","p","o","r","t",","," ","P","r","e","l","i","m","i","n",
          "a","r","y"," ","T","i","t","l","e">>>>>>

\* 'See actionable instruction for required documents'
SeeInstruction ==
    <<"S","e","e"," ","a","c","t","i","o","n","a","b","l","e"," ","i","n","s","t","r","u","c",
        "t","i","o","n"," ","f","o","r"," ","r","e","q","u","i","r","e","d"," ","d","o","c",
        "u","m","e","n","t","s">>

\* the markers of a universal condition (line 35): 'all docs pass through',
\* 'all documents', 'all docs', 'universal'
Sentinels ==
    {<<"a","l","l"," ","d","o","c","s"," ","p","a","s","s"," ","t","h","r","o","u","g","h">>,
     <<"a","l","l"," ","d","o","c","u","m","e","n","t","s">>,
     <<"a","l","l"," ","d","o","c","s">>,
     <<"u","n","i","v","e","r","s","a","l">>}

\* doc_types (lines 78-81)
DocTypeWords ==
    <<<<"t","a","x">>,
      <<"r","e","t","u","r","n">>,
      <<"l","e","t","t","e","r">>,
      <<"c","p","a">>,
      <<"k","-","1">>,
      <<"k","1">>,
      <<"s","c","h","e","d","u","l","e">>,
      <<"f","o","r","m">>,
      <<"s","t","a","t","e","m","e","n","t">>,
      <<"r","e","p","o","r","t">>,
      <<"a","g","r","e","e","m","e","n","t">>,
      <<"c","e","r","t","i","f","i","c","a","t","e">>,
      <<"p","a","y","s","t","u","b">>,
      <<"w","-","2">>,
      <<"w","2">>,
      <<"1","0","9","9">>,
      <<"1","0","4","0">>,
      <<"1","0","6","5">>,
      <<"1","1","2","0">>,
      <<"a","r","t","i","c","l","e","s">>,
      <<"o","p","e","r","a","t","i","n","g">>,
      <<"p","a","r","t","n","e","r","s","h","i","p">>,
      <<"i","n","c","o","r","p","o","r","a","t","i","o","n">>,
      <<"o","r","g","a","n","i","z","a","t","i","o","n">>,
      <<"b","a","n","k">>,
      <<"c","r","e","d","i","t">>,
      <<"p","r","o","o","f">>,
      <<"v","e","r","i","f","i","c","a","t","i","o","n">>>>

\* 'Upload bank statements'
InstBank ==
    <<"U","p","l","o","a","d"," ","b","a","n","k"," ","s","t","a","t","e","m","e","n","t","s">>

\* 'Provide K-1 or CPA letter'
InstK1 ==
    <<"P","r","o","v","i","d","e"," ","K","-","1"," ","o","r"," ","C","P","A"," ","l","e","t",
        "t","e","r">>

\* 'send it'
InstSendIt == <<"s","e","n","d"," ","i","t">>

\* actionable instructions: the empty one, two that name documents, one with
\* no token at all, one that names two table keywords, one with no document word
Instructions ==
    {<<>>, InstBank, InstK1, InstSendIt,
     \* 'Provide signed tax return and bank statement'
     <<"P","r","o","v","i","d","e"," ","s","i","g","n","e","d"," ","t","a","x"," ","r","e","t",
       "u","r","n"," ","a","n","d"," ","b","a","n","k"," ","s","t","a","t","e","m","e","n",
       "t">>,
     \* 'Explain the gap in employment'
     <<"E","x","p","l","a","i","n"," ","t","h","e"," ","g","a","p"," ","i","n"," ","e","m","p",
       "l","o","y","m","e","n","t">>}

\* 'All Docs'
RelAllDocs == <<"A","l","l"," ","D","o","c","s">>

\* 'K-1, CPA Letter, Form 1065'
RelK1 ==
    <<"K","-","1",","," ","C","P","A"," ","L","e","t","t","e","r",","," ","F","o","r","m"," ",
        "1","0","6","5">>

\* 'Purchase Contract'
RelContract == <<"P","u","r","c","h","a","s","e"," ","C","o","n","t","r","a","c","t">>

\* related_documents strings: empty, three spellings of a universal marker,
\* and lists of documents
RelatedStrings ==
    {<<>>, RelAllDocs, RelK1, RelContract,
     \* ' all documents '
     <<" ","a","l","l"," ","d","o","c","u","m","e","n","t","s"," ">>,
     \* 'All docs pass through'
     <<"A","l","l"," ","d","o","c","s"," ","p","a","s","s"," ","t","h","r","o","u","g","h">>,
     \* 'Paystub,W-2 Form'
     <<"P","a","y","s","t","u","b",",","W","-","2"," ","F","o","r","m">>,
     \* '1040 Personal Tax Return, Business Bank Statement'
     <<"1","0","4","0"," ","P","e","r","s","o","n","a","l"," ","T","a","x"," ","R","e","t","u",
       "r","n",","," ","B","u","s","i","n","e","s","s"," ","B","a","n","k"," ","S","t","a",
       "t","e","m","e","n","t">>}

\* lines 55-60: the document types of the first table keyword in the
\* instruction, or the generic marker
RECURSIVE MappedFrom(_, _)
MappedFrom(instruction_lower, i) ==
    IF i > Len(DocTypeMapping) THEN SeeInstruction
    ELSE IF Contains(instruction_lower, DocTypeMapping[i][1]) THEN DocTypeMapping[i][2]
    ELSE MappedFrom(instruction_lower, i + 1)

\* lines 70-85: the lower-cased tokens of the instruction, then the document
\* words it contains
KeywordsOf(actionable_instruction) ==
    LET potential == FindAllFrom(actionable_instruction, 1)
    IN  [i \in DOMAIN potential |-> Lower(potential[i])]
        \o SelectSeq(DocTypeWords, LAMBDA w : Contains(Lower(actionable_instruction), w))

\* extract_relevant_documents
ExtractRelevantDocuments(actionable_instruction, related_documents) ==
    IF actionable_instruction = <<>> \/ related_documents = <<>> THEN related_documents
    ELSE IF Strip(Lower(related_documents)) \in Sentinels
    THEN MappedFrom(Lower(actionable_instruction), 1)
    ELSE LET docs_list == [i \in DOMAIN Split(related_documents) |->
                              Strip(Split(related_documents)[i])]
             keywords == KeywordsOf(actionable_instruction)
             relevant_docs == SelectSeq(docs_list, LAMBDA doc :
                                  \E k \in DOMAIN keywords : Contains(Lower(doc), keywords[k]))
         IN  IF relevant_docs = <<>> THEN related_documents ELSE Join(relevant_docs)

\* deficiency_result.get(key, ""): the value, or "" where the key is missing
GetOrEmpty(has, value) == IF has THEN value ELSE <<>>

\* the detection results: either key may be missing
InitDocs ==
    /\ cacheKeys = {} /\ cacheFill = 0 /\ clientOK = TRUE /\ call = NoCall /\ th = <<>>
    /\ HfIdle /\ RankIdle /\ PriorityIdle /\ ScoreIdle /\ ConfIdle /\ PipeIdle
    /\ din \in [hasInstruction : BOOLEAN, instruction : Instructions,
                hasRelated : BOOLEAN, related : RelatedStrings]
    /\ ~din.hasInstruction => din.instruction = <<>>
    /\ ~din.hasRelated => din.related = <<>>
    /\ dout = <<>>
    /\ dpc = "start"

\* score_single_deficiency, lines 257-260 and 276-278
DeriveDocuments ==
    /\ dpc = "start"
    /\ LET related_docs == GetOrEmpty(din.hasRelated, din.related)
           actionable_inst == GetOrEmpty(din.hasInstruction, din.instruction)
       IN  dout' = [related_documents |-> related_docs,
                    actionable_documents |->
                        ExtractRelevantDocuments(actionable_inst, related_docs),
                    actionable_instruction |-> actionable_inst]
    /\ dpc' = "done"
    /\ UNCHANGED <<din, priorityVars, scoreVars, retrievalVars, confVars, pipeVars>>

NextDocs == DeriveDocuments

SpecDocs == InitDocs /\ [][NextDocs]_vars

\* the table keywords an instruction contains
KeywordsIn(instruction) ==
    {i \in DOMAIN DocTypeMapping : Contains(Lower(instruction), DocTypeMapping[i][1])}

\* C18: when related_documents is a universal marker, whatever the instruction
\* is (the empty one included), actionable_documents is the document types of a
\* table keyword the instruction contains, or the generic marker when it contains
\* none, and never the universal marker itself
C18_UniversalMapped ==
    (dpc = "done" /\ Strip(Lower(dout.related_documents)) \in Sentinels) =>
        /\ IF KeywordsIn(dout.actionable_instruction) # {}
           THEN \E i \in KeywordsIn(dout.actionable_instruction) :
                    dout.actionable_documents = DocTypeMapping[i][2]
           ELSE dout.actionable_documents = SeeInstruction
        /\ Strip(Lower(dout.actionable_documents)) \notin Sentinels

\* the comma-separated items of a string
Items(str) == {Strip(Split(str)[i]) : i \in DOMAIN Split(str)}

\* C19: the items of actionable_documents are items of related_documents
C19_ActionableSubsetOfRelated ==
    dpc = "done" => Items(dout.actionable_documents) \subseteq Items(dout.related_documents)

-----------------------------------------------------------------------------
(* Scoring of the detection results: deficiency_scorer.py lines 136-312.   *)

MaxResults == 3

\* top_n of a call: -1 stands for the negative ones, which the slice of line
\* 195 counts from the end
TopNs == (0 - 1)..(MaxResults + 1)

\* priority_score_weights of the configuration (the documented default)
DefaultWeights == [severity |-> 4, impact |-> 3, urgency |-> 2, complexity |-> 1]

BareObject(severity, impact, urgency, complexity) ==
    [fence |-> "bare", body |-> "object",
     obj |-> [d \in Range(Dimensions) |->
                 CASE d = "severity" -> Num(severity) [] d = "impact" -> Num(impact)
                   [] d = "urgency" -> Num(urgency) [] OTHER -> Num(complexity)]]

\* what the generation service does when asked about a record: a reply that
\* rates it high, one that rates it 0.5 throughout, one that rates it low, and
\* a failed call
AnswerHigh == [serviceOK |-> TRUE, reply |-> BareObject(1500, 1500, 1500, 200)]

AnswerMid == [serviceOK |-> TRUE, reply |-> BareObject(500, 500, 500, 500)]

AnswerLow == [serviceOK |-> TRUE, reply |-> BareObject(200, 200, 200, 1500)]

AnswerFailed == [serviceOK |-> FALSE, reply |-> BareObject(500, 500, 500, 500)]

\* a result of the detection step. status "none": the key is missing;
\* deficiencies "null": the key holds null
Result(status, deficiencies, answer, instruction, related) ==
    [status |-> status, deficiencies |-> deficiencies, answer |-> answer,
     actionable_instruction |-> instruction, related_documents |-> related]

ResultKinds ==
    {Result("deficient", "list", AnswerHigh, InstK1, RelK1),
     Result("deficient", "list", AnswerMid, InstBank, RelAllDocs),
     Result("deficient", "list", AnswerLow, <<>>, <<>>),
     Result("deficient", "list", AnswerFailed, InstSendIt, RelContract),
     Result("deficient", "null", AnswerMid, InstK1, RelK1),
     Result("satisfied", "list", AnswerMid, InstK1, RelK1),
     Result("not_applicable", "list", AnswerMid, <<>>, <<>>),
     Result("none", "list", AnswerMid, InstK1, RelK1)}

\* the results with their place in the input as condition_id
Numbered(results) ==
    [i \in DOMAIN results |->
        [condition_id |-> i, status |-> results[i].status,
         deficiencies |-> results[i].deficiencies, answer |-> results[i].answer,
         actionable_instruction |-> results[i].actionable_instruction,
         related_documents |-> results[i].related_documents]]

\* faulty variant: every result is scored
AllResults(all_results) == all_results

\* line 160: [r for r in all_results if r.get("status") == "deficient"]
DeficientResults(all_results) == SelectSeq(all_results, LAMBDA r : r.status = "deficient")

\* the documents of the kinds of results, computed once
ActionableOf ==
    [d \in {<<k.actionable_instruction, k.related_documents>> : k \in ResultKinds} |->
        ExtractRelevantDocuments(d[1], d[2])]

\* score_single_deficiency: calculate_detection_confidence takes
\* len(deficiencies) (confidence_calculator.py line 89), which raises on null;
\* after it the service is asked once
ScoreSingleDeficiency(r) ==
    IF r.deficiencies = "null"
    THEN [raised |-> TRUE, called |-> FALSE, scored |-> <<>>]
    ELSE LET priority_result ==
                 EvaluatePriority(TRUE, r.answer.serviceOK, r.answer.reply, DefaultWeights)
         IN  [raised |-> FALSE, called |-> TRUE,
              scored |-> <<[condition_id |-> r.condition_id,
                            status |-> IF r.status = "none" THEN "deficient" ELSE r.status,
                            priority_score |-> priority_result.overall,
                            priority_dimensions |-> priority_result.dims,
                            related_documents |-> r.related_documents,
                            actionable_documents |-> ActionableOf[<<r.actionable_instruction, r.related_documents>>],
                            actionable_instruction |-> r.actionable_instruction]>>]

\* lines 182-189: the records are scored in turn; an exception ends the loop
RECURSIVE ScoreFrom(_, _, _, _)
ScoreFrom(deficient_results, i, scored_deficiencies, calls) ==
    IF i > Len(deficient_results)
    THEN [raised |-> FALSE, scored |-> scored_deficiencies, calls |-> calls]
    ELSE LET one == ScoreSingleDeficiency(deficient_results[i])
         IN  IF one.raised THEN [raised |-> TRUE, scored |-> <<>>, calls |-> calls]
             ELSE ScoreFrom(deficient_results, i + 1, scored_deficiencies \o one.scored,
                            calls + 1)

\* a record goes behind every record whose priority_score is not smaller
RECURSIVE InsertByPriority(_, _)
InsertByPriority(sorted, d) ==
    IF sorted = <<>> THEN <<d>>
    ELSE IF Head(sorted).priority_score >= d.priority_score
         THEN <<Head(sorted)>> \o InsertByPriority(Tail(sorted), d)
         ELSE <<d>> \o sorted

RECURSIVE SortFrom(_, _)
SortFrom(list, acc) ==
    IF list = <<>> THEN acc ELSE SortFrom(Tail(list), InsertByPriority(acc, Head(list)))

\* faulty variant: the records stay in the order of the input
LeftUnsorted(scored_deficiencies) == scored_deficiencies

\* faulty variant: reverse=True is forgotten
SortByPriorityAscending(scored_deficiencies) ==
    LET sorted == SortFrom(scored_deficiencies, <<>>)
    IN  [i \in DOMAIN sorted |-> sorted[Len(sorted) + 1 - i]]

\* line 192: scored_deficiencies.sort(key=priority_score, reverse=True), stable
SortByPriority(scored_deficiencies) == SortFrom(scored_deficiencies, <<>>)

\* faulty variant: one record too many
TopNPlusOne(scored_deficiencies, top_n) ==
    SubSeq(scored_deficiencies, 1, Min(top_n + 1, Len(scored_deficiencies)))

\* line 195: scored_deficiencies[:top_n]
TopN(scored_deficiencies, top_n) ==
    IF top_n >= 0
    THEN SubSeq(scored_deficiencies, 1, Min(top_n, Len(scored_deficiencies)))
    ELSE SubSeq(scored_deficiencies, 1, Max(0, Len(scored_deficiencies) + top_n))

HighPriority == (7 * DimScale) \div 10

MediumPriority == (4 * DimScale) \div 10

\* round(total / count, 3), the total in units of 1/DimScale: ties to even
RoundedAverage(total, count) ==
    LET q == total \div count
        r == total % count
    IN  IF 2 * r < count THEN q
        ELSE IF 2 * r > count THEN q + 1
        ELSE IF q % 2 = 0 THEN q ELSE q + 1

\* lines 286-294 and 167-180
EmptySummary ==
    [total_deficiencies_evaluated |-> 0, average_priority_score |-> 0,
     high_priority_count |-> 0, medium_priority_count |-> 0, low_priority_count |-> 0]

\* _calculate_summary
CalculateSummary(scored_deficiencies) ==
    IF scored_deficiencies = <<>> THEN EmptySummary
    ELSE LET scores == [i \in DOMAIN scored_deficiencies |->
                           scored_deficiencies[i].priority_score]
         IN  [total_deficiencies_evaluated |-> Len(scored_deficiencies),
              average_priority_score |->
                  RoundedAverage(SeqSum(scores), Len(scored_deficiencies)),
              high_priority_count |->
                  Cardinality({i \in DOMAIN scores : scores[i] >= HighPriority}),
              medium_priority_count |->
                  Cardinality({i \in DOMAIN scores :
                                  MediumPriority <= scores[i] /\ scores[i] < HighPriority}),
              low_priority_count |->
                  Cardinality({i \in DOMAIN scores : scores[i] < MediumPriority})]

\* score_deficiencies. metadata: the result carries the _metadata key;
\* calls: how often the generation service was asked
ScoreDeficienciesOf(results, top_n) ==
    LET deficient_results == DeficientResults(Numbered(results))
    IN  IF deficient_results = <<>>
        THEN [raised |-> FALSE, scored_deficiencies |-> <<>>, top_n |-> <<>>,
              summary |-> EmptySummary, metadata |-> FALSE, calls |-> 0]
        ELSE LET s == ScoreFrom(deficient_results, 1, <<>>, 0)
                 scored_deficiencies == SortByPriority(s.scored)
             IN  IF s.raised
                 THEN [raised |-> TRUE, scored_deficiencies |-> <<>>, top_n |-> <<>>,
                       summary |-> EmptySummary, metadata |-> FALSE, calls |-> s.calls]
                 ELSE [raised |-> FALSE, scored_deficiencies |-> scored_deficiencies,
                       top_n |-> TopN(scored_deficiencies, top_n),
                       summary |-> CalculateSummary(scored_deficiencies),
                       metadata |-> TRUE, calls |-> s.calls]

InitScore ==
    /\ cacheKeys = {} /\ cacheFill = 0 /\ clientOK = TRUE /\ call = NoCall /\ th = <<>>
    /\ HfIdle /\ RankIdle /\ PriorityIdle /\ DocIdle /\ ConfIdle /\ PipeIdle
    /\ sin \in [results : SeqsUpTo(ResultKinds, MaxResults), top_n : TopNs]
    /\ sout = <<>>
    /\ spc = "start"

\* one call of score_deficiencies
ScoreDeficiencies ==
    /\ spc = "start"
    /\ \E r \in {ScoreDeficienciesOf(sin.results, sin.top_n)} :
          /\ sout' = r
          /\ spc' = IF r.raised THEN "raised" ELSE "returned"
    /\ UNCHANGED <<sin, priorityVars, docVars, retrievalVars, confVars, pipeVars>>

NextScore == ScoreDeficiencies

SpecScore == InitScore /\ [][NextScore]_vars

\* the places of the input whose status is 'deficient'
DeficientPlaces == {i \in DOMAIN sin.results : sin.results[i].status = "deficient"}

\* how many scored records stand for place i of the input
ScoredFor(i) ==
    Cardinality({j \in DOMAIN sout.scored_deficiencies :
                    sout.scored_deficiencies[j].condition_id = i})

\* C13: a call of score_deficiencies that returns has exactly one scored record
\* for each input result whose status is 'deficient' and none for a result of
\* another status; when no input result is deficient the call returns, with
\* empty lists and all summary counts 0, and the generation service is not asked
C13_OneRecordPerDeficient ==
    /\ spc = "returned" =>
          /\ \A i \in DOMAIN sin.results :
                ScoredFor(i) = IF i \in DeficientPlaces THEN 1 ELSE 0
          /\ Len(sout.scored_deficiencies) = Cardinality(DeficientPlaces)
    /\ (spc # "start" /\ DeficientPlaces = {}) =>
          /\ spc = "returned"
          /\ sout.scored_deficiencies = <<>> /\ sout.top_n = <<>>
          /\ sout.summary = EmptySummary
          /\ sout.calls = 0

\* two records are scored out of an input that also holds results of other status
C13_Witness ==
    /\ spc = "returned"
    /\ Cardinality(DeficientPlaces) = 2
    /\ Len(sin.results) = 3
    /\ Len(sout.scored_deficiencies) = 2

\* nothing is deficient in an input that is not empty
C13_EmptyWitness ==
    /\ spc = "returned" /\ DeficientPlaces = {} /\ Len(sin.results) = 2
    /\ sout.summary = EmptySummary

\* C14: in the result of score_deficiencies the priority_score never increases
\* along scored_deficiencies, every scored record is in it, and for every
\* top_n >= 0 the top_n list is its first min(top_n, length) records
C14_SortedAndTruncated ==
    spc = "returned" =>
        LET scored == sout.scored_deficiencies
        IN  /\ \A i \in 1..(Len(scored) - 1) :
                  scored[i].priority_score >= scored[i + 1].priority_score
            /\ \A i \in DeficientPlaces : ScoredFor(i) = 1
            /\ sin.top_n >= 0 =>
                  sout.top_n = SubSeq(scored, 1, Min(sin.top_n, Len(scored)))

\* three records of three different scores come in rising order and two are asked for
C14_Witness ==
    /\ spc = "returned"
    /\ Len(sout.scored_deficiencies) = 3
    /\ sin.top_n = 2 /\ Len(sout.top_n) = 2
    /\ sout.scored_deficiencies[1].priority_score > sout.scored_deficiencies[2].priority_score
    /\ sout.scored_deficiencies[2].priority_score > sout.scored_deficiencies[3].priority_score
    /\ sout.scored_deficiencies[1].condition_id = 3

\* the deficient results whose own scoring does not fail
Scorable == {i \in DeficientPlaces : sin.results[i].deficiencies # "null"}

\* C28: a failure while one deficient record is scored is absorbed at that
\* record: score_deficiencies returns, with a scored entry for every other
\* deficient record
C28_RecordFailureAbsorbed ==
    spc # "start" =>
        /\ spc = "returned"
        /\ \A i \in Scorable : ScoredFor(i) = 1

-----------------------------------------------------------------------------
(* Detection confidence: confidence_calculator.py. A component is the     *)
(* fraction n/d, kept as [n |-> n, d |-> d].                               *)

MaxSubRecords == 2

Frac(n, d) == [n |-> n, d |-> d]

\* a sub-record of "deficiencies": requirement says whether that field is
\* there and not empty; a text field that is missing is the empty text. Where
\* the "deficiencies" key holds null, the list is empty and `null` is set
SubRecord(requirement, issue, field_checked, evidence) ==
    [requirement |-> requirement, issue |-> issue, field_checked |-> field_checked,
     evidence |-> evidence]

\* sub-records: about an empty array, about a wrong value, naming no keyword
\* and with fields left out, naming keywords of both kinds
SubRecords ==
    {\* 'Field is missing', 'scheduleGPartII[].percentageOwned', 'Array is empty []'
     SubRecord(TRUE, <<"F","i","e","l","d"," ","i","s"," ","m","i","s","s","i","n","g">>,
               <<"s","c","h","e","d","u","l","e","G","P","a","r","t","I","I","[","]",".","p","e","r","c",
                     "e","n","t","a","g","e","O","w","n","e","d">>,
               <<"A","r","r","a","y"," ","i","s"," ","e","m","p","t","y"," ","[","]">>),
     \* 'Value is invalid', 'year', 'Got 12'
     SubRecord(TRUE, <<"V","a","l","u","e"," ","i","s"," ","i","n","v","a","l","i","d">>,
               <<"y","e","a","r">>, <<"G","o","t"," ","1","2">>),
     \* 'See page two', no field_checked, no evidence
     SubRecord(FALSE, <<"S","e","e"," ","p","a","g","e"," ","t","w","o">>, <<>>, <<>>),
     \* 'Value not found', 'document', 'Invalid format'
     SubRecord(TRUE, <<"V","a","l","u","e"," ","n","o","t"," ","f","o","u","n","d">>,
               <<"d","o","c","u","m","e","n","t">>, <<"I","n","v","a","l","i","d"," ","f","o","r","m","a","t">>)}

\* checked_fields: none, a vague one, a specific and a vague one
CheckedFieldLists ==
    {<<>>,
     <<<<"y","e","a","r">>>>,
     <<<<"f","o","r","m","1","1","2","5","E">>,
       <<"y","e","a","r">>>>}

\* the words of line 220
StructureIndicators ==
    <<<<"b","e","c","a","u","s","e">>,
      <<"s","i","n","c","e">>,
      <<"t","h","e","r","e","f","o","r","e">>,
      <<"h","o","w","e","v","e","r">>,
      <<"s","h","o","u","l","d">>,
      <<"m","u","s","t">>,
      <<"w","o","u","l","d">>>>

\* the marks of line 117
SpecificIndicators ==
    <<<<".">>,
      <<"[">>,
      <<"]">>,
      <<"_">>,
      <<"l","i","n","e">>,
      <<"s","c","h","e","d","u","l","e">>,
      <<"f","o","r","m">>>>

\* str.ljust(n, '.'): the text filled up to n characters
Padded(text, n) ==
    IF Len(text) >= n THEN text ELSE text \o [i \in 1..(n - Len(text)) |-> "."]

\* the lengths around the steps of lines 210-217; 0 leaves a text as it is
ReasoningLengths == {0, 49, 50, 149, 150, 299, 300}

\* reasoning texts: no connective, one, two (one of them capitalised), four, and
\* 'data is missing', which has none but a keyword of the configuration
ReasoningPhrases ==
    {<<>>,
     <<"I","t"," ","i","s"," ","l","a","t","e"," ","b","e","c","a","u","s","e"," ","o","f"," ",
           "a"," ","h","o","l","i","d","a","y">>,
     <<"B","e","c","a","u","s","e"," ","i","t"," ","m","u","s","t"," ","b","e"," ","s","i","g",
           "n","e","d">>,
     <<"S","i","n","c","e"," ","i","t"," ","s","h","o","u","l","d",","," ","h","o","w","e","v",
           "e","r",","," ","i","t"," ","w","o","u","l","d">>,
     <<"A"," ","m","u","s","t","a","r","d"," ","s","t","a","i","n">>,
     <<"d","a","t","a"," ","i","s"," ","m","i","s","s","i","n","g">>}

Reasonings == {Padded(p, n) : p \in ReasoningPhrases, n \in ReasoningLengths}

\* scoring_config.json: the keyword lists and scores of the evidence types, the
\* scores by number of sub-records (line 86), the weights in percent
Config(missing, wrong, weights) ==
    [evidence_type_keywords |-> [missing |-> missing, wrong |-> wrong],
     evidence_type_scores |-> [empty_array |-> 7 * (DimScale \div 10),
                               missing_required |-> 6 * (DimScale \div 10),
                               wrong_value |-> 9 * (DimScale \div 10),
                               unclear |-> 5 * (DimScale \div 10)],
     deficiency_count_scores |-> <<Frac(5, 10), Frac(8, 10), Frac(10, 10)>>,
     detection_confidence_weights |-> weights]

ConfidenceWeights ==
    {[evidence_completeness |-> 25, deficiency_count |-> 15, field_specificity |-> 20,
      evidence_type |-> 20, reasoning_quality |-> 20],
     [evidence_completeness |-> 10, deficiency_count |-> 10, field_specificity |-> 10,
      evidence_type |-> 60, reasoning_quality |-> 10]}

\* the keywords 'missing', 'not found', 'empty' and 'invalid', 'incorrect'; and
\* a configuration without 'wrong' keywords
KeywordsMissing ==
    <<<<"m","i","s","s","i","n","g">>,
      <<"n","o","t"," ","f","o","u","n","d">>,
      <<"e","m","p","t","y">>>>

KeywordsWrong ==
    <<<<"i","n","v","a","l","i","d">>,
      <<"i","n","c","o","r","r","e","c","t">>>>

Configs ==
    {Config(KeywordsMissing, w, cw) : w \in {KeywordsWrong, <<>>}, cw \in ConfidenceWeights}

\* score_evidence_completeness
ScoreEvidenceCompleteness(deficiencies) ==
    IF deficiencies = <<>> THEN Frac(2, 10)
    ELSE LET present(d) == (IF d.requirement THEN 1 ELSE 0)
                           + (IF d.issue # <<>> THEN 1 ELSE 0)
                           + (IF d.field_checked # <<>> THEN 1 ELSE 0)
                           + (IF d.evidence # <<>> THEN 1 ELSE 0)
         IN  Frac(SeqSum([i \in DOMAIN deficiencies |-> present(deficiencies[i])]),
                  Len(deficiencies) * 4)

\* score_deficiency_count: len(deficiencies) raises on null (line 89)
ScoreDeficiencyCount(null, deficiencies, config) ==
    IF null THEN [raised |-> TRUE, value |-> Frac(0, 1)]
    ELSE [raised |-> FALSE,
          value |-> IF Len(deficiencies) = 0 THEN Frac(3, 10)
                    ELSE config.deficiency_count_scores[Min(Len(deficiencies), 3)]]

\* line 123: any(indicator in field_str for indicator in specific_indicators)
IsSpecific(field) ==
    \E i \in DOMAIN SpecificIndicators : Contains(Lower(field), SpecificIndicators[i])

\* score_field_specificity
ScoreFieldSpecificity(checked_fields, deficiencies) ==
    IF checked_fields = <<>> /\ deficiencies = <<>> THEN Frac(2, 10)
    ELSE LET refs == checked_fields
                     \o SelectSeq([i \in DOMAIN deficiencies |-> deficiencies[i].field_checked],
                                  LAMBDA f : f # <<>>)
             total_refs == Len(refs)
             specific_refs == Len(SelectSeq(refs, IsSpecific))
         IN  IF total_refs = 0 THEN Frac(3, 10)
             ELSE IF 10 * specific_refs >= 8 * total_refs THEN Frac(10, 10)
             ELSE IF 10 * specific_refs >= 5 * total_refs THEN Frac(7, 10)
             ELSE Frac(4, 10)

HasKeyword(text, keywords) ==
    \E s \in {text} : \E i \in DOMAIN keywords : Contains(s, keywords[i])

\* variant of line 175 that looks for the keyword in the text
IsWrongInText(combined_text, keywords_wrong) == HasKeyword(combined_text, keywords_wrong)

\* line 175: any(keyword in keywords_wrong for keyword in keywords_wrong)
IsWrong(combined_text, keywords_wrong) ==
    \E i \in DOMAIN keywords_wrong : keywords_wrong[i] \in Range(keywords_wrong)

\* lines 169-185: the evidence type of one sub-record
EvidenceTypeOf(deficiency, config) ==
    LET combined_text == Lower(deficiency.issue) \o <<" ">> \o Lower(deficiency.evidence)
        is_missing == HasKeyword(combined_text, config.evidence_type_keywords.missing)
        is_wrong == IsWrong(combined_text, config.evidence_type_keywords.wrong)
    IN  IF is_missing /\ Contains(combined_text, <<"[", "]">>) THEN "empty_array"
        ELSE IF is_missing THEN "missing_required"
        ELSE IF is_wrong THEN "wrong_value"
        ELSE "unclear"

\* score_evidence_type: the types of the sub-records, then one more sample when
\* the reasoning has a 'missing' keyword; the score is their average
EvidenceTypes(deficiencies, reasoning, config) ==
    [i \in DOMAIN deficiencies |-> EvidenceTypeOf(deficiencies[i], config)]
    \o (IF HasKeyword(Lower(reasoning), config.evidence_type_keywords.missing)
        THEN <<"missing_required">> ELSE <<>>)

ScoreEvidenceType(deficiencies, reasoning, config) ==
    IF deficiencies = <<>> THEN Frac(3, 10)
    ELSE LET types == EvidenceTypes(deficiencies, reasoning, config)
         IN  Frac(SeqSum([i \in DOMAIN types |-> config.evidence_type_scores[types[i]]]),
                  Len(types) * DimScale)

\* faulty variant: the steps are one too high
LengthScoreOff(length) ==
    IF length < 51 THEN 3 ELSE IF length < 151 THEN 5 ELSE IF length < 301 THEN 7 ELSE 10

\* lines 210-217, in tenths
LengthScore(length) ==
    IF length < 50 THEN 3 ELSE IF length < 150 THEN 5 ELSE IF length < 300 THEN 7 ELSE 10

\* line 221: how many of the words occur in reasoning.lower()
StructureCount(reasoning) ==
    LET lower == CHOOSE s \in {Lower(reasoning)} : TRUE
    IN  Cardinality({i \in DOMAIN StructureIndicators :
                        Contains(lower, StructureIndicators[i])})

\* score_reasoning_quality, in hundredths:
\* 0.7 * length_score + 0.3 * min(structure_count / 3, 1.0)
ScoreReasoningQuality(reasoning) ==
    IF reasoning = <<>> THEN Frac(10, 100)
    ELSE Frac(7 * LengthScore(Len(reasoning)) + 10 * Min(StructureCount(reasoning), 3), 100)

\* the reasoning scores of the texts, computed once
ReasoningQualityOf == [r \in Reasonings |-> ScoreReasoningQuality(r)]

\* round(n/d, 3)
Rounded(f) == RoundedAverage(f.n * DimScale, f.d)

RECURSIVE Gcd(_, _)
Gcd(a, b) == IF b = 0 THEN a ELSE Gcd(b, a % b)

\* a/b + c/d in lowest terms
AddFrac(f, g) ==
    LET n == f.n * g.d + g.n * f.d
        d == f.d * g.d
    IN  Frac(n \div Gcd(n, d), d \div Gcd(n, d))

\* lines 37-43 and 46: the weighted sum, rounded to three decimals
WeightedOverall(parts, weights) ==
    LET term(k) == Frac(weights[k] * parts[k].n, parts[k].d)
        total == AddFrac(AddFrac(AddFrac(AddFrac(term("evidence_completeness"),
                                                 term("deficiency_count")),
                                         term("field_specificity")),
                                 term("evidence_type")),
                         term("reasoning_quality"))
    IN  RoundedAverage(total.n * DimScale, total.d * 100)

\* calculate_detection_confidence
CalculateDetectionConfidence(r, config) ==
    LET count == ScoreDeficiencyCount(r.null, r.deficiencies, config)
        parts == [evidence_completeness |-> ScoreEvidenceCompleteness(r.deficiencies),
                  deficiency_count |-> count.value,
                  field_specificity |-> ScoreFieldSpecificity(r.checked_fields, r.deficiencies),
                  evidence_type |-> ScoreEvidenceType(r.deficiencies, r.reasoning, config),
                  reasoning_quality |-> ReasoningQualityOf[r.reasoning]]
    IN  IF count.raised
        THEN [raised |-> TRUE, overall |-> 0, parts |-> parts, breakdown |-> <<>>,
              types |-> <<>>]
        ELSE [raised |-> FALSE,
              overall |-> WeightedOverall(parts, config.detection_confidence_weights),
              parts |-> parts,
              breakdown |-> [k \in DOMAIN parts |-> Rounded(parts[k])],
              types |-> EvidenceTypes(r.deficiencies, r.reasoning, config)]

InitConfidence ==
    /\ cacheKeys = {} /\ cacheFill = 0 /\ clientOK = TRUE /\ call = NoCall /\ th = <<>>
    /\ HfIdle /\ RankIdle /\ PriorityIdle /\ DocIdle /\ ScoreIdle /\ PipeIdle
    /\ cin \in [null : BOOLEAN, deficiencies : SeqsUpTo(SubRecords, MaxSubRecords),
                checked_fields : CheckedFieldLists, reasoning : Reasonings,
                config : Configs]
    /\ cin.null => cin.deficiencies = <<>>
    /\ cout = <<>>
    /\ cpc = "start"

\* one call of calculate_detection_confidence
Calculate ==
    /\ cpc = "start"
    /\ \E r \in {CalculateDetectionConfidence(cin, cin.config)} :
          /\ cout' = r
          /\ cpc' = IF r.raised THEN "raised" ELSE "done"
    /\ UNCHANGED <<cin, priorityVars, docVars, scoreVars, retrievalVars, pipeVars>>

NextConfidence == Calculate

SpecConfidence == InitConfidence /\ [][NextConfidence]_vars

\* the issue and evidence of sub-record i, as score_evidence_type reads them
TextOf(i) == Lower(cin.deficiencies[i].issue) \o <<" ">> \o Lower(cin.deficiencies[i].evidence)

\* C25: a sub-record gets the 'wrong_value' score only if its own text has a
\* 'wrong' keyword and no 'missing' keyword, and a sub-record whose text has
\* neither kind of keyword gets the 'unclear' score
C25_ClassifiedByOwnText ==
    cpc = "done" =>
        \A i \in DOMAIN cin.deficiencies :
            LET missing == HasKeyword(TextOf(i), cin.config.evidence_type_keywords.missing)
                wrong == HasKeyword(TextOf(i), cin.config.evidence_type_keywords.wrong)
            IN  /\ cout.types[i] = "wrong_value" => (wrong /\ ~missing)
                /\ (~missing /\ ~wrong) => cout.types[i] = "unclear"

\* C26: a reasoning text shorter than 50 characters, the empty text included,
\* scores 0.7*0.3 + 0.3*min(k/3, 1) for its k connective words; the length
\* tiers below 150, below 300 and from 300 on are 0.5, 0.7 and 1.0
C26_ReasoningTiers ==
    cpc = "done" =>
        LET length == Len(cin.reasoning)
            tier == IF length < 50 THEN 3 ELSE IF length < 150 THEN 5
                    ELSE IF length < 300 THEN 7 ELSE 10
        IN  cout.parts.reasoning_quality =
                Frac(7 * tier + 10 * Min(StructureCount(cin.reasoning), 3), 100)

\* the part of C26 about the texts that are not empty
TiersOfNonEmpty == (cpc = "done" /\ cin.reasoning # <<>>) => C26_ReasoningTiers

-----------------------------------------------------------------------------
(* The pipeline: graph.py. A list of the state is kept by its length; a    *)
(* log entry is <<step, event_type>>.                                       *)

MaxOut == 2

\* top_n of the call of line 260
RankTopN == 5

\* the cut of lines 329-331
ConditionLimit == 100

Nodes ==
    <<"step1_compartments", "step2_hard_filter", "step3_rank_requirements",
      "step4_5_detect_deficiencies", "step6_7_score_deficiencies", "finalize">>

\* faulty variant: step 2 goes on with step 4/5
EdgeAroundRanking(n) ==
    IF n = "step2_hard_filter" THEN "step4_5_detect_deficiencies"
    ELSE IF n = "finalize" THEN "END"
    ELSE Nodes[(CHOOSE i \in DOMAIN Nodes : Nodes[i] = n) + 1]

\* add_edge: the node that follows n
Edge(n) ==
    IF n = "finalize" THEN "END"
    ELSE Nodes[(CHOOSE i \in DOMAIN Nodes : Nodes[i] = n) + 1]

\* final_results: its keys, the lengths of its two lists
FinalResults(keys, top_n, scored_deficiencies) ==
    [keys |-> keys, top_n |-> top_n, scored_deficiencies |-> scored_deficiencies]

\* initial_state of run_pipeline_with_langgraph
InitialState(classification, extracted_entities, top_n) ==
    [classification |-> classification, extracted_entities |-> extracted_entities,
     top_n |-> top_n, compartments |-> 0, filtered_requirements |-> 0,
     ranked_requirements |-> 0, detection_results |-> 0, deficient_conditions |-> 0,
     final_results |-> FinalResults({}, 0, 0), total_tokens |-> FALSE]

\* what the code between try and except did: whether it raised, the entries it
\* logged, the state it left
Body(raised, events, state) == [raised |-> raised, events |-> events, state |-> state]

\* a body that completes may instead raise while its last entry is built
WithLateFailure(bodies) ==
    bodies \cup {Body(TRUE, SubSeq(b.events, 1, Len(b.events) - 1), b.state) : b \in bodies}

\* faulty variant: a step without its except clause
Unguarded(body, empty) ==
    [raised |-> body.raised, propagated |-> body.raised,
     events |-> <<"start">> \o body.events, state |-> body.state]

\* a step function: the "start" entry, the body, and on an exception the
\* "error" entry and the empty output of the stage
Guarded(body, empty) ==
    IF body.raised
    THEN [raised |-> TRUE, propagated |-> FALSE,
          events |-> <<"start">> \o body.events \o <<"error">>,
          state |-> [k \in DOMAIN body.state |->
                        IF k \in DOMAIN empty THEN empty[k] ELSE body.state[k]]]
    ELSE [raised |-> FALSE, propagated |-> FALSE,
          events |-> <<"start">> \o body.events, state |-> body.state]

\* the outputs a failing step leaves
EmptyOutput ==
    [step1_compartments |-> [compartments |-> 0],
     step2_hard_filter |-> [filtered_requirements |-> 0],
     step3_rank_requirements |-> [ranked_requirements |-> 0],
     step4_5_detect_deficiencies |-> [detection_results |-> 0, deficient_conditions |-> 0],
     step6_7_score_deficiencies |->
         [final_results |-> FinalResults({"top_n", "scored_deficiencies"}, 0, 0)]]

StepLabel ==
    [step1_compartments |-> "STEP_1", step2_hard_filter |-> "STEP_2",
     step3_rank_requirements |-> "STEP_3", step4_5_detect_deficiencies |-> "STEP_4_5",
     step6_7_score_deficiencies |-> "STEP_6_7", finalize |-> "FINALIZE"]

\* lines 138-168: the body of step 1
Step1Bodies(state) ==
    IF ~state.classification
    THEN {Body(FALSE, <<"warning">>, [state EXCEPT !.compartments = 0])}
    ELSE {Body(TRUE, <<>>, state)}
         \cup WithLateFailure(
                {Body(FALSE, <<"complete">>, [state EXCEPT !.compartments = c]) :
                     c \in 1..MaxOut})
         \cup (IF state.extracted_entities
               THEN {Body(TRUE, <<"warning">>, state)}
                    \cup WithLateFailure(
                           {Body(FALSE, <<"warning", "complete">>,
                                 [state EXCEPT !.compartments = c]) : c \in 0..MaxOut})
               ELSE WithLateFailure(
                      {Body(FALSE, <<"warning", "complete">>,
                            [state EXCEPT !.compartments = 0])}))

\* lines 188-220: the body of step 2
Step2Bodies(state) ==
    IF state.compartments = 0
    THEN {Body(FALSE, <<"skip">>, [state EXCEPT !.filtered_requirements = 0])}
    ELSE {Body(TRUE, <<>>, state)}
         \cup WithLateFailure(
                {Body(FALSE, <<"complete">>, [state EXCEPT !.filtered_requirements = n]) :
                     n \in 0..MaxOut})

\* lines 240-282: the body of step 3
Step3Bodies(state) ==
    IF state.filtered_requirements = 0
    THEN {Body(FALSE, <<"skip">>, [state EXCEPT !.ranked_requirements = 0])}
    ELSE {Body(TRUE, <<>>, state)}
         \cup WithLateFailure(
                {Body(FALSE, <<"complete">>, [state EXCEPT !.ranked_requirements = m]) :
                     m \in {state.filtered_requirements,
                            Min(state.filtered_requirements, RankTopN)}})

\* lines 303-380: the body of step 4/5, for `found` conditions in the table
Step4_5BodiesFor(state, found) ==
    LET limited == IF found > ConditionLimit THEN <<"info">> ELSE <<>>
        condition_ids == Min(found, ConditionLimit)
    IN  IF condition_ids = 0
        THEN {Body(FALSE, <<"warning">>,
                   [state EXCEPT !.detection_results = 0, !.deficient_conditions = 0])}
        ELSE {Body(TRUE, limited \o <<"info">>, state)}
             \cup WithLateFailure(
                    {Body(FALSE, limited \o <<"info", "complete">>,
                          [state EXCEPT !.detection_results = p[1],
                                        !.deficient_conditions = p[2]]) :
                         p \in {q \in (0..Min(condition_ids, MaxOut)) \X (0..MaxOut) :
                                    q[2] <= q[1]}})

Step4_5Bodies(state) ==
    {Body(TRUE, <<>>, state)}
    \cup UNION {Step4_5BodiesFor(state, found) : found \in (0..MaxOut) \cup {ConditionLimit + 1}}

\* lines 402-448: the body of step 6/7
Step6_7Bodies(state) ==
    IF state.deficient_conditions = 0
    THEN {Body(FALSE, <<"skip">>,
               [state EXCEPT !.final_results =
                                 FinalResults({"top_n", "scored_deficiencies", "summary"}, 0, 0)])}
    ELSE {Body(TRUE, <<>>, state)}
         \cup WithLateFailure(
                {Body(FALSE, <<"complete">>,
                      [state EXCEPT !.final_results =
                           FinalResults({"top_n", "scored_deficiencies", "summary"},
                                        Min(state.deficient_conditions, state.top_n),
                                        state.deficient_conditions)])})

pipeFrame == <<priorityVars, docVars, scoreVars, retrievalVars, confVars>>

InitPipe ==
    /\ cacheKeys = {} /\ cacheFill = 0 /\ clientOK = TRUE /\ call = NoCall /\ th = <<>>
    /\ HfIdle /\ RankIdle /\ PriorityIdle /\ DocIdle /\ ScoreIdle /\ ConfIdle
    /\ node = Nodes[1]
    /\ \E classification \in BOOLEAN, extracted_entities \in BOOLEAN, top_n \in 1..MaxOut :
          pipe = InitialState(classification, extracted_entities, top_n)
    /\ logs = <<>>
    /\ ran = <<>>

\* one node of the graph run to its end
RunStep(name, bodies) ==
    /\ node = name
    /\ \E b \in bodies : \E r \in {Guarded(b, EmptyOutput[name])} :
          /\ pipe' = r.state
          /\ logs' = logs \o [i \in DOMAIN r.events |-> <<StepLabel[name], r.events[i]>>]
          /\ ran' = Append(ran, [node |-> name, raised |-> r.raised])
          /\ node' = IF r.propagated THEN "aborted" ELSE Edge(name)
    /\ UNCHANGED pipeFrame

step1_get_compartments == RunStep("step1_compartments", Step1Bodies(pipe))

step2_hard_filter == RunStep("step2_hard_filter", Step2Bodies(pipe))

step3_rank_requirements == RunStep("step3_rank_requirements", Step3Bodies(pipe))

step4_5_detect_deficiencies == RunStep("step4_5_detect_deficiencies", Step4_5Bodies(pipe))

step6_7_score_deficiencies == RunStep("step6_7_score_deficiencies", Step6_7Bodies(pipe))

finalize_pipeline ==
    /\ node = "finalize"
    /\ pipe' = [pipe EXCEPT !.total_tokens = TRUE]
    /\ logs' = Append(logs, <<"FINALIZE", "complete">>)
    /\ ran' = Append(ran, [node |-> "finalize", raised |-> FALSE])
    /\ node' = Edge("finalize")
    /\ UNCHANGED pipeFrame

NextPipe ==
    \/ step1_get_compartments
    \/ step2_hard_filter
    \/ step3_rank_requirements
    \/ step4_5_detect_deficiencies
    \/ step6_7_score_deficiencies
    \/ finalize_pipeline

SpecPipe == InitPipe /\ [][NextPipe]_vars

\* the graph runner calls the next node as soon as the one before has returned
SpecPipeRun == SpecPipe /\ WF_vars(NextPipe)

\* the steps have run once each, in the order of the graph
StepsRanInOrder ==
    /\ Len(ran) = Len(Nodes) - 1
    /\ \A i \in DOMAIN ran : ran[i].node = Nodes[i]

\* a step that failed has its error entry and left its stage empty
FailuresRecorded ==
    \A i \in DOMAIN ran :
        ran[i].raised =>
            /\ <<StepLabel[ran[i].node], "error">> \in Range(logs)
            /\ \A k \in DOMAIN EmptyOutput[ran[i].node] :
                   pipe[k] = EmptyOutput[ran[i].node][k]

\* C29: every run reaches finalize; when it does, steps 1, 2, 3, 4/5 and 6/7
\* have run exactly once each in that order, and every step that raised has
\* logged an error entry and left the empty output of its stage
C29_RunReachesFinalize ==
    /\ <>(node = "finalize")
    /\ [](node = "finalize" => (StepsRanInOrder /\ FailuresRecorded))

\* a run is at finalize after step 2 and step 4/5 both raised
C29_Witness ==
    /\ node = "finalize"
    /\ ran[2].raised
    /\ ran[4].raised
    /\ StepsRanInOrder

====
